---- MODULE Spec2Model ----
(***************************************************************************)
(* Calibration of turntable camera rigs (phenomenal): the multi-start      *)
(* search find_parameters, the flat parameter vector of every rig variant, *)
(* the structure of the reprojection objective fit_function, the post-fit  *)
(* angle wrapping and field assignment of calibrate, dump / load, and the  *)
(* frames and the pinhole projection (target_frame, camera_frame,          *)
(* pixel_coordinates, get_projection) of the openalea and alinea sources.  *)
(*                                                                         *)
(* Numbers are integers.  Angles are counted in units of pi / Pi, so that  *)
(* a full turn is TwoPi units.  The optimizer (scipy BFGS) and the numeric *)
(* value of the objective are not computed: the converged vector and the   *)
(* objective value of an attempt are chosen from bounded sets.             *)
(***************************************************************************)
EXTENDS Integers, Sequences, FiniteSets, TLC

\* ------------------------------------------------------------------ bounds

\* largest number_of_repetition given to calibrate
MaxRep == 1
\* largest nb_targets / number of supplied targets of the generalized variant
MaxTargets == 2
\* largest number of auxiliary cameras (nb_cameras - 1) / supplied other_cameras
MaxOthers == 2
\* largest number of corners of a target's local 3D layout
MaxCorners == 2

\* ------------------------------------------------------------------ values

\* math.pi in angle units
Pi == 4

TwoPi == 2 * Pi

\* a number
Num(x) == <<"num", x>>

\* Python's None
None == <<"none", 0>>

\* float('inf')
Inf == <<"inf", 0>>

\* a not-a-number float
NaN == <<"nan", 0>>

IsNum(v) == v[1] = "num"

\* a plausible slip: a comparison that lets a not-a-number pass as the least
LtOrNaN(a, b) ==
    \/ a[1] = "nan"
    \/ /\ b[1] # "nan"
       /\ a[1] # "inf"
       /\ (b[1] = "inf" \/ a[2] < b[2])

\* Python's a < b on floats: false as soon as one side is not a number,
\* nothing is below itself, every number is below +inf
Lt(a, b) ==
    /\ a[1] # "nan"
    /\ b[1] # "nan"
    /\ a[1] # "inf"
    /\ (b[1] = "inf" \/ a[2] < b[2])

\* converged values the optimizer may give an entry of the vector: a negative
\* angle, a quarter turn, an angle between pi and 2 pi, more than a full turn
ValSeq == << -1, Pi \div 2, Pi + 1, TwoPi + 1 >>

NVals == Len(ValSeq)

\* values of the objective at a converged point
ErrVals == {Num(1), Num(2), Inf, NaN}

\* acquisition angle labels of the observation dictionaries
AngleSets == {{}, {0}, {0, 90}}

\* ------------------------------------------------------------------ variants

Variants ==
    {"Top", "TopBis", "TopPosition", "TopFocal", "Side1", "Side2",
     "Side2YXZ", "SideTop2", "RegTop", "General"}

\* variants fitted against one flat list of points instead of per-angle dicts
TopLike == {"Top", "TopBis", "TopPosition", "TopFocal", "RegTop"}

\* a field of a calibration object: owner, index of the owner, attribute
F(owner, idx, attr) == <<owner, idx, attr>>

Attr(f) == f[3]

IsRot(f) == Attr(f) \in {"rot_x", "rot_y", "rot_z"}

CamPose == <<"pos_x", "pos_y", "pos_z", "rot_x", "rot_y", "rot_z">>

\* the eight free values of a camera: focal lengths, position, rotation
Cam8(owner, idx) ==
    << F(owner, idx, "focal_length_x"), F(owner, idx, "focal_length_y") >>
    \o [k \in 1..6 |-> F(owner, idx, CamPose[k])]

\* the six pose values of target idx
Target6(idx) == [k \in 1..6 |-> F("target", idx, CamPose[k])]

\* side camera of the two-target rigs: z position and y rotation are fixed
SideCam6(owner) ==
    << F(owner, 0, "focal_length_x"), F(owner, 0, "focal_length_y"),
       F(owner, 0, "pos_x"), F(owner, 0, "pos_y"),
       F(owner, 0, "rot_x"), F(owner, 0, "rot_z") >>

AngleFactor == F("cam", 0, "angle_factor")

\* element k of a Python list, k counted from 0
At(xs, k) == xs[k + 1]

\* ------------------------------------------------------------------ the flat vector

\* initial-guess entries of one target in Calibration.find_parameters
GeneralTargetGuess(i) == Target6(i)

\* initial-guess entries of one auxiliary camera in Calibration.find_parameters
GeneralOtherGuess(j) == Cam8("other", j)

RECURSIVE GeneralTargetsFrom(_, _)
\* for i in range(self._nb_targets): parameters += [...]
GeneralTargetsFrom(i, T) ==
    IF i >= T THEN << >> ELSE GeneralTargetGuess(i) \o GeneralTargetsFrom(i + 1, T)

RECURSIVE GeneralOthersFrom(_, _)
\* for i in range(self._nb_others): parameters += [...]
GeneralOthersFrom(j, A) ==
    IF j >= A THEN << >> ELSE GeneralOtherGuess(j) \o GeneralOthersFrom(j + 1, A)

\* the seven reference-camera entries of the generalized variant
GeneralRef7 ==
    << F("cam", 0, "focal_length_x"), F("cam", 0, "focal_length_y"),
       F("cam", 0, "pos_y"),
       F("cam", 0, "rot_x"), F("cam", 0, "rot_y"), F("cam", 0, "rot_z"),
       AngleFactor >>

\* the vector find_parameters builds, as the list of the fields it holds
FindLayout(v, T, A) ==
    CASE v \in {"Top", "TopBis"} -> Cam8("cam", 0)
      [] v = "TopPosition" -> [k \in 1..6 |-> F("cam", 0, CamPose[k])]
      [] v = "TopFocal" ->
            << F("cam", 0, "focal_length_x"), F("cam", 0, "focal_length_y") >>
      [] v = "Side1" ->
            << F("cam", 0, "focal_length_x"), F("cam", 0, "focal_length_y"),
               F("cam", 0, "pos_x"), F("cam", 0, "pos_y"),
               F("cam", 0, "rot_x"), F("cam", 0, "rot_y"), F("cam", 0, "rot_z"),
               AngleFactor >> \o Target6(0)
      [] v \in {"Side2", "Side2YXZ"} ->
            SideCam6("cam") \o << AngleFactor >> \o Target6(1) \o Target6(2)
      [] v = "SideTop2" ->
            SideCam6("cam_side") \o << AngleFactor >> \o Target6(1) \o Target6(2)
      [] v = "RegTop" -> Cam8("alpha_cam", 0)
      [] v = "General" ->
            GeneralRef7 \o GeneralTargetsFrom(0, T) \o GeneralOthersFrom(0, A)

\* the names fit_function unpacks the whole vector into (tuple assignment
\* "a, b, ... = x0"); << >> for the variants that index or slice x0 instead
FitUnpack(v) ==
    CASE v \in {"Top", "TopBis"} -> Cam8("cam", 0)
      [] v = "TopPosition" -> [k \in 1..6 |-> F("cam", 0, CamPose[k])]
      [] v = "TopFocal" ->
            << F("cam", 0, "focal_length_x"), F("cam", 0, "focal_length_y") >>
      [] v = "Side1" ->
            << F("cam", 0, "focal_length_x"), F("cam", 0, "focal_length_y"),
               F("cam", 0, "pos_x"), F("cam", 0, "pos_y"),
               F("cam", 0, "rot_x"), F("cam", 0, "rot_y"), F("cam", 0, "rot_z"),
               AngleFactor >> \o Target6(0)
      [] v \in {"Side2", "Side2YXZ"} ->
            SideCam6("cam") \o << AngleFactor >> \o Target6(1) \o Target6(2)
      [] v = "SideTop2" ->
            SideCam6("cam_side") \o Cam8("cam_top", 0) \o << AngleFactor >>
                \o Target6(1) \o Target6(2)
      [] OTHER -> << >>

\* an offset hard-coded for a rig with one target, for comparison
FitOffsetOneTarget(T) == 7 + 6

\* offset = 7 + self._nb_targets * 6 in fit_function
FitOffset(T) == 7 + T * 6

\* x0[7 + i * 6: 13 + i * 6] in fit_function: first index and end of the slice
FitTargetSlice(i) == << 7 + i * 6, 13 + i * 6 >>

\* x0[offset + i * 8: offset + i * 8 + 8] in fit_function
FitOtherSlice(j, T) == << FitOffset(T) + j * 8, FitOffset(T) + j * 8 + 8 >>

\* the indices a Python slice x0[lo:hi] of a vector of length L yields
SliceIdx(lo, hi, L) == { k \in 0..(L - 1) : lo <= k /\ k < hi }

\* the <<index, field>> pairs fit_function of the generalized variant reads
\* from a vector of length L (names in the order of the tuple assignments)
GeneralFitReads(T, A, L) ==
    { <<k, GeneralRef7[k + 1]>> : k \in SliceIdx(0, 7, L) }
    \cup { <<FitTargetSlice(i)[1] + (k - 1), Target6(i)[k]>> :
             i \in 0..(T - 1), k \in 1..6 }
    \cup { <<FitOtherSlice(j, T)[1] + (k - 1), Cam8("other", j)[k]>> :
             j \in 0..(A - 1), k \in 1..8 }

\* a tuple assignment of n names from the slice x0[lo:hi] raises ValueError
\* unless the slice has exactly n elements
SliceUnpackFails(lo, hi, n, L) == Cardinality(SliceIdx(lo, hi, L)) # n

\* fit_function cannot take apart a vector of length L
FitUnpackFails(v, T, A, L) ==
    CASE v = "General" ->
            \/ SliceUnpackFails(0, 7, 7, L)
            \/ \E i \in 0..(T - 1) :
                 SliceUnpackFails(FitTargetSlice(i)[1], FitTargetSlice(i)[2], 6, L)
            \/ \E j \in 0..(A - 1) :
                 SliceUnpackFails(FitOtherSlice(j, T)[1], FitOtherSlice(j, T)[2], 8, L)
      [] v = "RegTop" -> L < 8
      [] OTHER -> Len(FitUnpack(v)) # L

\* ------------------------------------------------------------------ objects

\* a 4x4 matrix, row-major
Mat(m) == <<"mat", m>>

\* _cam_origin_axis of the top-camera variants
TopAxis ==
    Mat(<< 0, -1, 0, 0,
           1, 0, 0, 0,
           0, 0, 1, 0,
           0, 0, 0, 1 >>)

\* _cam_origin_axis of the side-camera variants with one or two targets
SideAxis ==
    Mat(<< 0, 0, 1, 0,
           1, 0, 0, 0,
           0, 1, 0, 0,
           0, 0, 0, 1 >>)

\* _cam_origin_axis of CalibrationCameraSideWith2TargetYXZ
YXZAxis ==
    Mat(<< 1, 0, 0, 0,
           0, 0, -1, 0,
           0, 1, 0, 0,
           0, 0, 0, 1 >>)

CamAttrs ==
    {"width_image", "height_image", "focal_length_x", "focal_length_y",
     "pos_x", "pos_y", "pos_z", "rot_x", "rot_y", "rot_z", "origin_axis"}

PoseAttrs == {"pos_x", "pos_y", "pos_z", "rot_x", "rot_y", "rot_z"}

\* CalibrationCamera.__init__: every parameter field is None
NewCamera(owner, idx) ==
    [f \in {F(owner, idx, a) : a \in CamAttrs} |-> None]

\* the six pose fields of a target, all None
NewTarget(idx) == [f \in {F("target", idx, a) : a \in PoseAttrs} |-> None]

NewAngleFactor == [f \in {AngleFactor} |-> None]

\* g overrides and extends f
Upd(f, g) ==
    [x \in (DOMAIN f) \cup (DOMAIN g) |-> IF x \in DOMAIN g THEN g[x] ELSE f[x]]

\* the single field f set to value
Set(f, value) == [x \in {f} |-> value]

RECURSIVE NewTargets(_, _)
\* [TargetParameters() for i in range(nb_targets)]
NewTargets(i, T) ==
    IF i >= T THEN << >> ELSE Upd(NewTarget(i), NewTargets(i + 1, T))

RECURSIVE NewOthers(_, _)
\* [CalibrationCamera() for i in range(self._nb_others)]
NewOthers(j, A) ==
    IF j >= A THEN << >>
    ELSE Upd(Upd(NewCamera("other", j), Set(F("other", j, "angle_factor"), None)),
             NewOthers(j + 1, A))

\* a previously calibrated top camera handed to the constructor as camera_top
CompanionTop ==
    Upd(Upd(NewCamera("cam", 0), NewAngleFactor),
        [f \in {F("cam", 0, a) : a \in CamAttrs \ {"origin_axis"}} |->
            CASE Attr(f) \in {"width_image", "height_image"} -> Num(20)
              [] Attr(f) \in {"focal_length_x", "focal_length_y"} -> Num(30)
              [] Attr(f) \in {"pos_x", "pos_y", "pos_z"} -> Num(7)
              [] OTHER -> Num(1)]
        @@ Set(F("cam", 0, "origin_axis"), TopAxis)
        @@ Set(AngleFactor, Num(1)))

\* no companion camera (camera_top=None)
NoCompanion == << >>

\* self._camera_top = camera_top: the companion camera as the object reaches
\* it, field by field
CameraTopRef(top) ==
    IF top = NoCompanion THEN << >>
    ELSE [f \in {F("camera_top", 0, a) : a \in CamAttrs \cup {"angle_factor"}} |->
            top[F("cam", 0, Attr(f))]]

\* the fields of a freshly constructed object of variant v
NewObject(v, T, A, top) ==
    CASE v = "Top" ->
            Upd(Upd(NewCamera("cam", 0), NewAngleFactor),
                Set(F("cam", 0, "origin_axis"), TopAxis))
      [] v = "TopBis" ->
            Upd(Upd(Upd(NewCamera("cam", 0), NewAngleFactor),
                    Set(F("cam", 0, "origin_axis"), TopAxis)),
                CameraTopRef(top))
      [] v = "TopPosition" ->
            Upd(Upd(Upd(NewCamera("cam", 0), NewAngleFactor), CameraTopRef(top)),
                Set(F("cam", 0, "origin_axis"), TopAxis)
                @@ Set(F("cam", 0, "focal_length_x"),
                       IF top # NoCompanion
                       THEN top[F("cam", 0, "focal_length_x")] ELSE Num(3785))
                @@ Set(F("cam", 0, "focal_length_y"),
                       IF top # NoCompanion
                       THEN top[F("cam", 0, "focal_length_y")] ELSE Num(3772)))
      [] v = "TopFocal" ->
            Upd(Upd(NewCamera("cam", 0), NewAngleFactor),
                IF top # NoCompanion
                THEN [f \in {F("cam", 0, a) : a \in PoseAttrs \cup {"origin_axis"}}
                        |-> top[f]]
                ELSE Set(F("cam", 0, "origin_axis"), TopAxis))
      [] v = "Side1" ->
            Upd(Upd(Upd(NewCamera("cam", 0), NewAngleFactor), NewTarget(0)),
                Set(F("cam", 0, "pos_z"), Num(0))
                @@ Set(F("cam", 0, "origin_axis"), SideAxis))
      [] v = "Side2" ->
            Upd(Upd(Upd(Upd(NewCamera("cam", 0), NewAngleFactor), NewTarget(1)),
                    NewTarget(2)),
                Set(F("cam", 0, "pos_z"), Num(0))
                @@ Set(F("cam", 0, "rot_y"), Num(0))
                @@ Set(F("cam", 0, "origin_axis"), SideAxis))
      [] v = "Side2YXZ" ->
            Upd(Upd(Upd(Upd(NewCamera("cam", 0), NewAngleFactor), NewTarget(1)),
                    NewTarget(2)),
                Set(F("cam", 0, "pos_z"), Num(0))
                @@ Set(F("cam", 0, "rot_y"), Num(0))
                @@ Set(F("cam", 0, "origin_axis"), YXZAxis))
      [] v = "SideTop2" ->
            Upd(Upd(Upd(Upd(Upd(NewCamera("cam_side", 0), NewCamera("cam_top", 0)),
                            NewAngleFactor), NewTarget(1)), NewTarget(2)),
                Set(F("cam_side", 0, "pos_z"), Num(0))
                @@ Set(F("cam_side", 0, "rot_y"), Num(0))
                @@ Set(F("cam_side", 0, "origin_axis"), SideAxis)
                @@ Set(F("cam_top", 0, "origin_axis"), TopAxis))
      [] v = "RegTop" ->
            Upd([f \in {F("alpha_cam", 0, a) :
                          a \in PoseAttrs \cup {"focal_length_x", "focal_length_y"}}
                    |-> Num(0)],
                CameraTopRef(top))
      [] v = "General" ->
            Upd(Upd(Upd(NewCamera("cam", 0), NewAngleFactor), NewTargets(0, T)),
                NewOthers(0, A))

\* ------------------------------------------------------------------ calibrate: wrap and store

\* "for i in [...]: parameters[i] %= math.pi * 2.0" in calibrate
WrapIndices(v) ==
    CASE v \in {"Top", "TopBis", "RegTop"} -> {5, 6, 7}
      [] v = "TopPosition" -> {3, 4, 5}
      [] v = "Side1" -> {4, 5, 6, 11, 12, 13}
      [] v \in {"Side2", "SideTop2"} -> {4, 5, 10, 11, 12, 16, 17, 18}
      [] v = "Side2YXZ" -> {4, 6, 10, 11, 12, 16, 17, 18}
      [] OTHER -> {}

\* parameters[i] %= math.pi * 2.0 (Python's % takes the sign of the divisor)
WrapTwoPi(x) == x % TwoPi

\* parameters[k] % math.pi * 2.0 of Calibration.calibrate: % and * have the
\* same precedence and associate to the left
GeneralWrap(x) == (x % Pi) * 2

\* the vector after the in-place wrap loop of calibrate
WrapInPlace(v, xs) ==
    [k \in 1..Len(xs) |-> IF (k - 1) \in WrapIndices(v) THEN WrapTwoPi(xs[k]) ELSE xs[k]]

\* entry: parameters[k] goes to field f, through GeneralWrap when w
St(k, f, w) == <<k, f, w>>

\* "target_param._... = parameters[7 + i * 6 + ...]" for target i
GeneralStoreTarget(i) ==
    << St(7 + i * 6, F("target", i, "pos_x"), FALSE),
       St(8 + i * 6, F("target", i, "pos_y"), FALSE),
       St(9 + i * 6, F("target", i, "pos_z"), FALSE),
       St(10 + i * 6, F("target", i, "rot_x"), TRUE),
       St(11 + i * 6, F("target", i, "rot_y"), TRUE),
       St(12 + i * 6, F("target", i, "rot_z"), TRUE) >>

\* offset = 7 + self._nb_targets * 6 in calibrate
StoreOffset(T) == 7 + T * 6

\* "camera._cam_... = parameters[offset + i * 8 + ...]" for auxiliary camera j
GeneralStoreOther(j, T) ==
    << St(StoreOffset(T) + j * 8, F("other", j, "focal_length_x"), FALSE),
       St(StoreOffset(T) + j * 8 + 1, F("other", j, "focal_length_y"), FALSE),
       St(StoreOffset(T) + j * 8 + 2, F("other", j, "pos_x"), FALSE),
       St(StoreOffset(T) + j * 8 + 3, F("other", j, "pos_y"), FALSE),
       St(StoreOffset(T) + j * 8 + 4, F("other", j, "pos_z"), FALSE),
       St(StoreOffset(T) + j * 8 + 5, F("other", j, "rot_x"), TRUE),
       St(StoreOffset(T) + j * 8 + 6, F("other", j, "rot_y"), TRUE),
       St(StoreOffset(T) + j * 8 + 7, F("other", j, "rot_z"), TRUE),
       St(6, F("other", j, "angle_factor"), FALSE) >>

RECURSIVE GeneralStoreTargets(_, _)
\* for i, target_param in enumerate(self._targets_parameters)
GeneralStoreTargets(i, T) ==
    IF i >= T THEN << >> ELSE GeneralStoreTarget(i) \o GeneralStoreTargets(i + 1, T)

RECURSIVE GeneralStoreOthers(_, _, _)
\* for i, camera in enumerate(self._others)
GeneralStoreOthers(j, T, A) ==
    IF j >= A THEN << >> ELSE GeneralStoreOther(j, T) \o GeneralStoreOthers(j + 1, T, A)

\* fields in the order "self._x = parameters[k]", k = 0, 1, 2, ...
Plain(fields) == [k \in 1..Len(fields) |-> St(k - 1, fields[k], FALSE)]

\* the assignments of calibrate from the vector find_parameters returned
StoreSeq(v, T, A) ==
    CASE v \in {"Top", "TopBis"} ->
            Plain(<< F("cam", 0, "focal_length_x"), F("cam", 0, "focal_length_y"),
                     F("cam", 0, "pos_x"), F("cam", 0, "pos_y"), F("cam", 0, "pos_z"),
                     F("cam", 0, "rot_x"), F("cam", 0, "rot_y"), F("cam", 0, "rot_z") >>)
      [] v = "TopPosition" ->
            Plain(<< F("cam", 0, "pos_x"), F("cam", 0, "pos_y"), F("cam", 0, "pos_z"),
                     F("cam", 0, "rot_x"), F("cam", 0, "rot_y"), F("cam", 0, "rot_z") >>)
      [] v = "TopFocal" ->
            Plain(<< F("cam", 0, "focal_length_x"), F("cam", 0, "focal_length_y") >>)
      [] v = "Side1" ->
            Plain(<< F("cam", 0, "focal_length_x"), F("cam", 0, "focal_length_y"),
                     F("cam", 0, "pos_x"), F("cam", 0, "pos_y"),
                     F("cam", 0, "rot_x"), F("cam", 0, "rot_y"), F("cam", 0, "rot_z"),
                     AngleFactor,
                     F("target", 0, "pos_x"), F("target", 0, "pos_y"),
                     F("target", 0, "pos_z"), F("target", 0, "rot_x"),
                     F("target", 0, "rot_y"), F("target", 0, "rot_z") >>)
      [] v \in {"Side2", "Side2YXZ"} ->
            Plain(<< F("cam", 0, "focal_length_x"), F("cam", 0, "focal_length_y"),
                     F("cam", 0, "pos_x"), F("cam", 0, "pos_y"),
                     F("cam", 0, "rot_x"), F("cam", 0, "rot_z"),
                     AngleFactor,
                     F("target", 1, "pos_x"), F("target", 1, "pos_y"),
                     F("target", 1, "pos_z"), F("target", 1, "rot_x"),
                     F("target", 1, "rot_y"), F("target", 1, "rot_z"),
                     F("target", 2, "pos_x"), F("target", 2, "pos_y"),
                     F("target", 2, "pos_z"), F("target", 2, "rot_x"),
                     F("target", 2, "rot_y"), F("target", 2, "rot_z") >>)
      [] v = "SideTop2" ->
            Plain(<< F("cam_side", 0, "focal_length_x"), F("cam_side", 0, "focal_length_y"),
                     F("cam_side", 0, "pos_x"), F("cam_side", 0, "pos_y"),
                     F("cam_side", 0, "rot_x"), F("cam_side", 0, "rot_z"),
                     AngleFactor,
                     F("target", 1, "pos_x"), F("target", 1, "pos_y"),
                     F("target", 1, "pos_z"), F("target", 1, "rot_x"),
                     F("target", 1, "rot_y"), F("target", 1, "rot_z"),
                     F("target", 2, "pos_x"), F("target", 2, "pos_y"),
                     F("target", 2, "pos_z"), F("target", 2, "rot_x"),
                     F("target", 2, "rot_y"), F("target", 2, "rot_z") >>)
      [] v = "RegTop" ->
            Plain(<< F("alpha_cam", 0, "focal_length_x"),
                     F("alpha_cam", 0, "focal_length_y"),
                     F("alpha_cam", 0, "pos_x"), F("alpha_cam", 0, "pos_y"),
                     F("alpha_cam", 0, "pos_z"), F("alpha_cam", 0, "rot_x"),
                     F("alpha_cam", 0, "rot_y"), F("alpha_cam", 0, "rot_z") >>)
      [] v = "General" ->
            << St(0, F("cam", 0, "focal_length_x"), FALSE),
               St(1, F("cam", 0, "focal_length_y"), FALSE),
               St(2, F("cam", 0, "pos_y"), FALSE),
               St(3, F("cam", 0, "rot_x"), TRUE),
               St(4, F("cam", 0, "rot_y"), TRUE),
               St(5, F("cam", 0, "rot_z"), TRUE),
               St(6, AngleFactor, FALSE) >>
            \o GeneralStoreTargets(0, T) \o GeneralStoreOthers(0, T, A)

\* the value calibrate assigns for entry e of StoreSeq from the (already
\* wrapped in place) vector xs
StoredValue(e, xs) == IF e[3] THEN GeneralWrap(At(xs, e[1])) ELSE At(xs, e[1])

\* parameters[k] raises IndexError in the wrap loop or in an assignment
StoreFails(v, T, A, L) ==
    \/ \E k \in WrapIndices(v) : k >= L
    \/ \E n \in 1..Len(StoreSeq(v, T, A)) : StoreSeq(v, T, A)[n][1] >= L

\* the object's fields after the assignments of calibrate
Stored(v, T, A, o, xs) ==
    LET seq == StoreSeq(v, T, A)
        w == WrapInPlace(v, xs)
    IN  [f \in (DOMAIN o) \cup { seq[n][2] : n \in 1..Len(seq) } |->
            IF \E n \in 1..Len(seq) : seq[n][2] = f
            THEN Num(StoredValue(seq[CHOOSE n \in 1..Len(seq) : seq[n][2] = f], w))
            ELSE o[f]]

\* size_image handed to calibrate
WidthImage == Num(20)

HeightImage == Num(10)

\* the angle_factor argument of the top-camera calibrate methods
AngleFactorArg == Num(1)

\* the assignments of calibrate that precede find_parameters
PreStore(v, o) ==
    CASE v = "SideTop2" ->
            Upd(o, Set(F("cam_side", 0, "width_image"), WidthImage)
                   @@ Set(F("cam_side", 0, "height_image"), HeightImage))
      [] v \in TopLike ->
            Upd(o, Set(F("cam", 0, "width_image"), WidthImage)
                   @@ Set(F("cam", 0, "height_image"), HeightImage)
                   @@ Set(AngleFactor, AngleFactorArg))
      [] OTHER ->
            Upd(o, Set(F("cam", 0, "width_image"), WidthImage)
                   @@ Set(F("cam", 0, "height_image"), HeightImage))

\* ------------------------------------------------------------------ observations

\* one supplied target (ref_points_2d, points_local_3d): the angle labels of
\* the reference camera's detections, the number of corners of the local 3D
\* layout, the number of corners detected per image
Target(angles, lay, obs) == [angles |-> angles, lay |-> lay, obs |-> obs]

\* detections of one target by one auxiliary camera
Seen(angles, obs) == [angles |-> angles, obs |-> obs]

\* targets as calibrate takes them when every target has the same angle
\* labels and as many detected corners per image as its layout has
UniformTargets(T, angles, n) == [i \in 1..T |-> Target(angles, n, n)]

\* other_cameras as calibrate takes them: A cameras, each with its detections
\* of each of the T targets
UniformOthers(T, A, angles, n) == [c \in 1..A |-> [j \in 1..T |-> Seen(angles, n)]]

\* numpy: (n, 2) - (m, 2) broadcasts when the row counts agree or one is 1
Broadcasts(n, m) == n = m \/ n = 1 \/ m = 1

Max(a, b) == IF a >= b THEN a ELSE b

\* row of an n-row array that row r of the broadcast result reads
BRow(r, n) == IF n = 1 THEN 0 ELSE r

\* one addend of err: camera cam (0 the reference camera, c + 1 auxiliary
\* camera c) sees corner obsrow of target tgt at angle alpha, and it is
\* compared with corner layrow of the layout of target `layout`, placed with
\* the pose of target `pose`
Term(cam, tgt, alpha, obsrow, layout, layrow, pose) ==
    [cam |-> cam, tgt |-> tgt, alpha |-> alpha, obsrow |-> obsrow,
     layout |-> layout, layrow |-> layrow, pose |-> pose]

\* first loop of Calibration.fit_function: the reference camera
RefTerms(T, targets) ==
    { Term(0, i, alpha, BRow(r, targets[i + 1].obs), i,
           BRow(r, targets[i + 1].lay), i) :
        <<i, alpha, r>> \in
          { t \in (0..(T - 1)) \X (UNION AngleSets) \X (0..(MaxCorners - 1)) :
              /\ t[1] < Len(targets)
              /\ t[2] \in targets[t[1] + 1].angles
              /\ t[3] < Max(targets[t[1] + 1].obs, targets[t[1] + 1].lay) } }

\* the reference loop raises: IndexError on the target list, or ValueError
\* when the projected and detected corners do not broadcast
RefRaises(T, targets) ==
    \/ T > Len(targets)
    \/ \E i \in 0..(T - 1) :
         /\ targets[i + 1].angles # {}
         /\ ~Broadcasts(targets[i + 1].lay, targets[i + 1].obs)

\* second loop of Calibration.fit_function: auxiliary camera c reads
\* self._targets_points_local_3d[i] with i the camera index of the
\* enclosing enumerate
OtherLayout(c, j) == c

OtherTerms(T, A, targets, others) ==
    { Term(c + 1, j, alpha, BRow(r, others[c + 1][j + 1].obs), OtherLayout(c, j),
           BRow(r, targets[OtherLayout(c, j) + 1].lay), j) :
        <<c, j, alpha, r>> \in
          { t \in (0..(A - 1)) \X (0..(T - 1)) \X (UNION AngleSets)
                    \X (0..(MaxCorners - 1)) :
              /\ t[1] < Len(others)
              /\ t[2] < Len(others[t[1] + 1])
              /\ t[3] \in others[t[1] + 1][t[2] + 1].angles
              /\ OtherLayout(t[1], t[2]) < Len(targets)
              /\ t[4] < Max(others[t[1] + 1][t[2] + 1].obs,
                            targets[OtherLayout(t[1], t[2]) + 1].lay) } }

OtherRaises(T, A, targets, others) ==
    \E c \in 0..(A - 1), j \in 0..(T - 1) :
        \/ c >= Len(others)
        \/ j >= Len(others[c + 1])
        \/ /\ others[c + 1][j + 1].angles # {}
           /\ \/ OtherLayout(c, j) >= Len(targets)
              \/ ~Broadcasts(targets[OtherLayout(c, j) + 1].lay,
                             others[c + 1][j + 1].obs)

\* the addends of err in Calibration.fit_function
FitTerms(T, A, targets, others) ==
    RefTerms(T, targets) \cup OtherTerms(T, A, targets, others)

\* Calibration.fit_function ends in an exception on these observations
FitRaises(T, A, targets, others) ==
    RefRaises(T, targets) \/ OtherRaises(T, A, targets, others)

\* the detected corners handed to calibrate: camera, target, angle, corner
Supplied(targets, others) ==
    { <<0, i, alpha, r>> :
        <<i, alpha, r>> \in
          { t \in (0..(Len(targets) - 1)) \X (UNION AngleSets)
                    \X (0..(MaxCorners - 1)) :
              /\ t[2] \in targets[t[1] + 1].angles
              /\ t[3] < targets[t[1] + 1].obs } }
    \cup
    { <<c + 1, j, alpha, r>> :
        <<c, j, alpha, r>> \in
          { t \in (0..(Len(others) - 1)) \X (0..(MaxTargets - 1))
                    \X (UNION AngleSets) \X (0..(MaxCorners - 1)) :
              /\ t[2] < Len(others[t[1] + 1])
              /\ t[3] \in others[t[1] + 1][t[2] + 1].angles
              /\ t[4] < others[t[1] + 1][t[2] + 1].obs } }

\* "camera = self._others[i]" for each supplied auxiliary camera in calibrate
CalibrateRaises(A, others) == Len(others) > A

\* ------------------------------------------------------------------ dump and load

\* a JSON array
List(xs) == <<"list", xs>>

\* a JSON object
Dict(d) == <<"dict", d>>

\* save_class[key] = self.<field> for the twelve camera keys, in code order
CamKeys ==
    << <<"cam_width_image", F("cam", 0, "width_image")>>,
       <<"cam_height_image", F("cam", 0, "height_image")>>,
       <<"cam_focal_length_x", F("cam", 0, "focal_length_x")>>,
       <<"cam_focal_length_y", F("cam", 0, "focal_length_y")>>,
       <<"cam_pos_x", F("cam", 0, "pos_x")>>,
       <<"cam_pos_y", F("cam", 0, "pos_y")>>,
       <<"cam_pos_z", F("cam", 0, "pos_z")>>,
       <<"cam_rot_x", F("cam", 0, "rot_x")>>,
       <<"cam_rot_y", F("cam", 0, "rot_y")>>,
       <<"cam_rot_z", F("cam", 0, "rot_z")>>,
       <<"angle_factor", AngleFactor>>,
       <<"cam_origin_axis", F("cam", 0, "origin_axis")>> >>

\* the six target keys of CalibrationCameraSideWith1Target
TargetKeys ==
    << <<"target_pos_x", F("target", 0, "pos_x")>>,
       <<"target_pos_y", F("target", 0, "pos_y")>>,
       <<"target_pos_z", F("target", 0, "pos_z")>>,
       <<"target_rot_x", F("target", 0, "rot_x")>>,
       <<"target_rot_y", F("target", 0, "rot_y")>>,
       <<"target_rot_z", F("target", 0, "rot_z")>> >>

\* the twelve target keys of the two-target rigs
Target12Keys ==
    << <<"target_1_pos_x", F("target", 1, "pos_x")>>,
       <<"target_1_pos_y", F("target", 1, "pos_y")>>,
       <<"target_1_pos_z", F("target", 1, "pos_z")>>,
       <<"target_1_rot_x", F("target", 1, "rot_x")>>,
       <<"target_1_rot_y", F("target", 1, "rot_y")>>,
       <<"target_1_rot_z", F("target", 1, "rot_z")>>,
       <<"target_2_pos_x", F("target", 2, "pos_x")>>,
       <<"target_2_pos_y", F("target", 2, "pos_y")>>,
       <<"target_2_pos_z", F("target", 2, "pos_z")>>,
       <<"target_2_rot_x", F("target", 2, "rot_x")>>,
       <<"target_2_rot_y", F("target", 2, "rot_y")>>,
       <<"target_2_rot_z", F("target", 2, "rot_z")>> >>

\* the <<key, field>> pairs a variant's dump writes and its load reads
\* (the generalized variant adds 'targets_parameters', handled apart)
KeysOf(v) ==
    CASE v = "Side1" -> CamKeys \o TargetKeys
      [] v \in {"Side2", "Side2YXZ", "SideTop2"} -> CamKeys \o Target12Keys
      [] OTHER -> CamKeys

\* the keys of a dict written from TargetParameters.__dict__
TargetDictKeys == <<"_pos_x", "_pos_y", "_pos_z", "_rot_x", "_rot_y", "_rot_z">>

\* the attribute a TargetParameters dict key names
TargetAttr(k) ==
    CASE k = "_pos_x" -> "pos_x" [] k = "_pos_y" -> "pos_y" [] k = "_pos_z" -> "pos_z"
      [] k = "_rot_x" -> "rot_x" [] k = "_rot_y" -> "rot_y" [] k = "_rot_z" -> "rot_z"

\* json.dump of a value: numbers and None as they are, an origin axis as
\* the list reshape((16,)).tolist() gives
Encode(val) == IF val[1] = "mat" THEN List(val[2]) ELSE val

\* the variant has a dump method (RegistrationCameraTop has none)
HasDump(v) == v # "RegTop"

\* dump ends in an exception: an attribute the object does not have, or
\* reshape on an origin axis that is None
DumpRaises(v, o) ==
    \/ \E n \in 1..Len(KeysOf(v)) : KeysOf(v)[n][2] \notin DOMAIN o
    \/ o[F("cam", 0, "origin_axis")][1] # "mat"

\* [t.__dict__ for t in self._targets_parameters]
DumpTargets(o, T) ==
    List([i \in 1..T |->
            Dict([k \in {TargetDictKeys[n] : n \in 1..6} |->
                    Encode(o[F("target", i - 1, TargetAttr(k))])])])

\* the record dump writes
DumpRecord(v, o, T) ==
    LET keys == KeysOf(v)
        plain == [k \in {keys[n][1] : n \in 1..Len(keys)} |->
                    Encode(o[keys[CHOOSE n \in 1..Len(keys) : keys[n][1] = k][2]])]
    IN  IF v = "General"
        THEN plain @@ [k \in {"targets_parameters"} |-> DumpTargets(o, T)]
        ELSE plain

\* marks a key that the record does not have
Missing == <<"missing", 0>>

IsMissing(val) == val[1] = "missing"

\* save_class.get(key): a lookup that answers None for a key that is not
\* there, for comparison
GetOrNone(rec, key) == IF key \in DOMAIN rec THEN rec[key] ELSE None

\* save_class[key]
Get(rec, key) == IF key \in DOMAIN rec THEN rec[key] ELSE Missing

\* largest integer up to which every integer is a float32
Exact32 == 2 ^ 24

\* astype(numpy.float32) of one value
Float32(x) == IF -Exact32 <= x /\ x <= Exact32 THEN x ELSE (x \div 2) * 2

\* numpy.array(val).reshape((4, 4)) succeeds
Reshapes(val) == val[1] = "list" /\ Len(val[2]) = 16

\* numpy.array(val).reshape((4, 4)).astype(numpy.float32)
DecodeAxis(val) == Mat([n \in 1..16 |-> Float32(val[2][n])])

\* the class whose constructor a variant's load calls
LoadClass(v) ==
    CASE v \in TopLike -> "Top"
      [] v = "SideTop2" -> "Side2YXZ"
      [] OTHER -> v

\* len(save_class['targets_parameters'])
LoadedTargets(rec) ==
    IF Get(rec, "targets_parameters")[1] = "list"
    THEN Len(Get(rec, "targets_parameters")[2]) ELSE 0

\* load ends in an exception: a key read with [] is not there, or the
\* origin axis does not reshape
LoadRaises(v, rec) ==
    \/ \E n \in 1..Len(KeysOf(v)) : IsMissing(Get(rec, KeysOf(v)[n][1]))
    \/ ~Reshapes(Get(rec, "cam_origin_axis"))
    \/ /\ v = "General"
       /\ \/ Get(rec, "targets_parameters")[1] # "list"
          \/ \E i \in 1..LoadedTargets(rec), n \in 1..6 :
               IsMissing(Get(Get(rec, "targets_parameters")[2][i][2], TargetDictKeys[n]))

\* the object load returns
LoadObject(v, rec) ==
    LET keys == KeysOf(v)
        T == IF v = "General" THEN LoadedTargets(rec) ELSE 0
        fresh == NewObject(LoadClass(v), T, 0, NoCompanion)
        read == [f \in {keys[n][2] : n \in 1..Len(keys)} |->
                   LET key == keys[CHOOSE n \in 1..Len(keys) : keys[n][2] = f][1]
                   IN  IF key = "cam_origin_axis"
                       THEN DecodeAxis(Get(rec, key)) ELSE Get(rec, key)]
        tgts == [f \in {F("target", i, a) : i \in 0..(T - 1), a \in PoseAttrs} |->
                   LET k == CHOOSE k \in {TargetDictKeys[n] : n \in 1..6} :
                              TargetAttr(k) = f[3]
                   IN  Get(Get(rec, "targets_parameters")[2][f[2] + 1][2], k)]
    IN  [class |-> LoadClass(v), nb_targets |-> T, nb_others |-> 0,
         fields |-> Upd(Upd(fresh, read), tgts)]

\* a record holding every key the variant's load reads, as another run of
\* the rig software may have left it on disk
SampleRecord(v, T) ==
    LET keys == KeysOf(v)
        plain == [k \in {keys[n][1] : n \in 1..Len(keys)} |->
                    IF k = "cam_origin_axis" THEN Encode(YXZAxis) ELSE Num(3)]
    IN  IF v = "General"
        THEN plain @@ [k \in {"targets_parameters"} |->
                         List([i \in 1..T |->
                                 Dict([d \in {TargetDictKeys[n] : n \in 1..6} |->
                                         Num(5)])])]
        ELSE plain

\* ------------------------------------------------------------------ state

\* ------------------------------------------------------------------ geometry

\* largest number of rows of a batch of points
MaxBatch == 2

\* a quarter turn, in angle units
Quarter == Pi \div 2

\* math.cos on whole numbers of quarter turns
Cos(a) ==
    CASE a % TwoPi = 0 -> 1
      [] a % TwoPi = 2 * Quarter -> -1
      [] OTHER -> 0

\* math.sin on whole numbers of quarter turns
Sin(a) ==
    CASE a % TwoPi = Quarter -> 1
      [] a % TwoPi = 3 * Quarter -> -1
      [] OTHER -> 0

\* math.radians / numpy.radians: degrees to angle units
Radians(deg) == (deg * Pi) \div 180

x_axis == <<1, 0, 0>>
y_axis == <<0, 1, 0>>
z_axis == <<0, 0, 1>>

\* rotation_matrix(angle, axis) for a world axis: the 3x3 block, as rows
rotation_matrix(angle, axis) ==
    CASE axis = x_axis -> << <<1, 0, 0>>,
                             <<0, Cos(angle), -Sin(angle)>>,
                             <<0, Sin(angle), Cos(angle)>> >>
      [] axis = y_axis -> << <<Cos(angle), 0, Sin(angle)>>,
                             <<0, 1, 0>>,
                             <<-Sin(angle), 0, Cos(angle)>> >>
      [] OTHER         -> << <<Cos(angle), -Sin(angle), 0>>,
                             <<Sin(angle), Cos(angle), 0>>,
                             <<0, 0, 1>> >>

Identity3 == << <<1, 0, 0>>, <<0, 1, 0>>, <<0, 0, 1>> >>

\* numpy.dot of two 3x3 matrices
Dot(a, b) ==
    [r \in 1..3 |-> [c \in 1..3 |->
        a[r][1] * b[1][c] + a[r][2] * b[2][c] + a[r][3] * b[3][c]]]

\* m.T
Transpose(m) == [r \in 1..3 |-> [c \in 1..3 |-> m[c][r]]]

\* numpy.dot of a 3x3 matrix and a 3-vector
Apply(m, p) ==
    [r \in 1..3 |-> m[r][1] * p[1] + m[r][2] * p[2] + m[r][3] * p[3]]

RECURSIVE concatenate_matrices(_)
\* concatenate_matrices(m1, m2, ...): the product m1 . m2 . ... in the order
\* of the arguments
concatenate_matrices(ms) ==
    IF ms = << >> THEN Identity3
    ELSE Dot(concatenate_matrices(SubSeq(ms, 1, Len(ms) - 1)), ms[Len(ms)])

\* rot[:3, :3] of a 4x4 matrix
Block3(mat) ==
    [r \in 1..3 |-> [c \in 1..3 |-> mat[2][4 * (r - 1) + c]]]

\* Frame(axes, origin)
Frame(axes, origin) == [axes |-> axes, origin |-> origin]

\* Frame.local_point on one point: the transposed rotation applied to p - origin
local_point(fr, p) ==
    Apply(Transpose(fr.axes), [k \in 1..3 |-> p[k] - fr.origin[k]])

\* Frame.global_point on one point: the rotation applied to p, plus origin
global_point(fr, p) ==
    [k \in 1..3 |-> Apply(fr.axes, p)[k] + fr.origin[k]]

\* a plausible slip in the origin of target_frame: the turn taken backwards
TargetOriginBackwards(pos_x, pos_y, pos_z, alpha) ==
    << pos_x * Cos(alpha) + pos_y * Sin(alpha),
       pos_y * Cos(alpha) - pos_x * Sin(alpha),
       pos_z >>

\* origin of the frame of a target at turntable angle alpha
TargetOrigin(pos_x, pos_y, pos_z, alpha) ==
    << pos_x * Cos(alpha) - pos_y * Sin(alpha),
       pos_x * Sin(alpha) + pos_y * Cos(alpha),
       pos_z >>

\* a plausible slip in the composition of target_frame: X and Y exchanged
TargetRotZYX(rot_x, rot_y, rot_z, alpha) ==
    concatenate_matrices(<< rotation_matrix(alpha + rot_z, z_axis),
                            rotation_matrix(rot_y, y_axis),
                            rotation_matrix(rot_x, x_axis) >>)

\* rot of target_frame
TargetRot(rot_x, rot_y, rot_z, alpha) ==
    concatenate_matrices(<< rotation_matrix(alpha + rot_z, z_axis),
                            rotation_matrix(rot_x, x_axis),
                            rotation_matrix(rot_y, y_axis) >>)

\* CalibrationCamera.target_frame
target_frame(pos_x, pos_y, pos_z, rot_x, rot_y, rot_z, alpha) ==
    Frame(Transpose(TargetRot(rot_x, rot_y, rot_z, alpha)),
          TargetOrigin(pos_x, pos_y, pos_z, alpha))

\* rot of camera_frame
CameraRot(rot_x, rot_y, rot_z, origin_axis) ==
    concatenate_matrices(<< Block3(origin_axis),
                            rotation_matrix(rot_x, x_axis),
                            rotation_matrix(rot_y, y_axis),
                            rotation_matrix(rot_z, z_axis) >>)

\* CalibrationCamera.camera_frame
camera_frame(pos_x, pos_y, pos_z, rot_x, rot_y, rot_z, origin_axis) ==
    Frame(Transpose(CameraRot(rot_x, rot_y, rot_z, origin_axis)),
          << pos_x, pos_y, pos_z >>)

\* ------------------------------------------------------------------ projection

\* -inf
NegInf == <<"inf", -1>>

RECURSIVE Gcd(_, _)
Gcd(a, b) == IF b = 0 THEN a ELSE Gcd(b, a % b)

Abs(a) == IF a < 0 THEN -a ELSE a

\* the float n / d, d # 0, in lowest terms with a positive denominator
Rat(n, d) ==
    LET g == Gcd(Abs(n), Abs(d))
        sg == IF d < 0 THEN -1 ELSE 1
    IN <<"rat", (sg * n) \div g, (sg * d) \div g>>

\* numpy's x / z on floats: inf or nan when z is 0
Div(x, z) ==
    IF z # 0 THEN Rat(x, z)
    ELSE IF x = 0 THEN NaN
    ELSE IF x > 0 THEN Inf ELSE NegInf

\* q * k for a whole number k
Times(q, k) ==
    CASE q[1] = "rat" -> Rat(q[2] * k, q[3])
      [] q[1] = "nan" -> NaN
      [] OTHER -> IF k = 0 THEN NaN
                  ELSE IF (k > 0) = (q = Inf) THEN Inf ELSE NegInf

\* q + n / d
Plus(q, n, d) ==
    IF q[1] = "rat" THEN Rat(q[2] * d + n * q[3], q[3] * d) ELSE q

\* one point (x, y, z)
Point(p) == <<"pt", p>>

\* an (N, 3) array of points
Batch(rows) == <<"batch", rows>>

\* a call ended in the named exception
Raised(e) == <<"raised", e>>

\* u of pixel_coordinates for one point
PixelU(p, width_image, focal_length_x) ==
    Plus(Times(Div(p[1], p[3]), focal_length_x), width_image, 2)

\* v of pixel_coordinates for one point
PixelV(p, height_image, focal_length_y) ==
    Plus(Times(Div(p[2], p[3]), focal_length_y), height_image, 2)

\* CalibrationCamera.pixel_coordinates (openalea): x, y, z = pt.T, a pair for
\* one point, column_stack((u, v)) for a batch
pixel_coordinates(point_3d, width_image, height_image, focal_length_x, focal_length_y) ==
    IF point_3d[1] = "pt"
    THEN <<"uv", PixelU(point_3d[2], width_image, focal_length_x),
                 PixelV(point_3d[2], height_image, focal_length_y)>>
    ELSE <<"rows", [r \in 1..Len(point_3d[2]) |->
                      << PixelU(point_3d[2][r], width_image, focal_length_x),
                         PixelV(point_3d[2][r], height_image, focal_length_y) >>]>>

\* CalibrationCamera.pixel_coordinates (alinea): point_3d[0], point_3d[1] and
\* point_3d[2] are the coordinates of a point, but the first three rows of a
\* batch
pixel_coordinates_alinea(point_3d, width_image, height_image, focal_length_x, focal_length_y) ==
    IF point_3d[1] = "pt"
    THEN <<"uv", PixelU(point_3d[2], width_image, focal_length_x),
                 PixelV(point_3d[2], height_image, focal_length_y)>>
    ELSE IF Len(point_3d[2]) < 3 THEN Raised("IndexError")
    ELSE <<"uv",
           [c \in 1..3 |->
              Plus(Times(Div(point_3d[2][1][c], point_3d[2][3][c]), focal_length_x),
                   width_image, 2)],
           [c \in 1..3 |->
              Plus(Times(Div(point_3d[2][2][c], point_3d[2][3][c]), focal_length_y),
                   height_image, 2)]>>

\* a camera: the fields get_projection reads
Camera(width_image, height_image, focal_length_x, focal_length_y, pos, rot, angle_factor, origin_axis) ==
    [width_image |-> width_image, height_image |-> height_image,
     focal_length_x |-> focal_length_x, focal_length_y |-> focal_length_y,
     pos |-> pos, rot |-> rot, angle_factor |-> angle_factor,
     origin_axis |-> origin_axis]

\* CalibrationCamera.get_camera_frame
get_camera_frame(cam) ==
    camera_frame(cam.pos[1], cam.pos[2], cam.pos[3],
                 cam.rot[1], cam.rot[2], cam.rot[3], cam.origin_axis)

\* Frame.local_point on a point or, row by row, on a batch
LocalPoints(fr, pts) ==
    IF pts[1] = "pt" THEN Point(local_point(fr, pts[2]))
    ELSE Batch([r \in 1..Len(pts[2]) |-> local_point(fr, pts[2][r])])

\* the point turned about the world Z axis by angle
TurnedZ(p, angle) ==
    << p[1] * Cos(angle) - p[2] * Sin(angle),
       p[1] * Sin(angle) + p[2] * Cos(angle),
       p[3] >>

\* the two assignments of projection (openalea): y is computed from the x
\* assigned on the line before
TurnedInPlace(p, angle) ==
    LET x == p[1] * Cos(angle) - p[2] * Sin(angle)
        y == x * Sin(angle) + p[2] * Cos(angle)
    IN << x, y, p[3] >>

\* origin of projection (alinea get_projection): "inverse X axis orientation"
TurnedInverseX(p, angle) ==
    << -p[1] * Cos(angle) - p[2] * Sin(angle),
       -p[1] * Sin(angle) + p[2] * Cos(angle),
       p[3] >>

\* angle = math.radians(alpha * self._angle_factor) in get_projection
ProjectionAngle(alpha, angle_factor) == Radians(alpha * angle_factor)

\* the function returned by get_projection(alpha) (openalea), applied to pts
projection(cam, alpha, pts) ==
    LET angle == ProjectionAngle(alpha, cam.angle_factor)
        origin == IF pts[1] = "pt" THEN Point(TurnedInPlace(pts[2], angle))
                  ELSE Batch([r \in 1..Len(pts[2]) |->
                                TurnedInPlace(pts[2][r], angle)])
    IN pixel_coordinates(LocalPoints(get_camera_frame(cam), origin),
                         cam.width_image, cam.height_image,
                         cam.focal_length_x, cam.focal_length_y)

\* the origin list of the alinea projections on a batch: pt[0], pt[1] and
\* pt[2] are its first three rows, combined entry by entry
RowsAsCoordinates(rows, sx, angle) ==
    Batch(<< [c \in 1..3 |-> sx * rows[1][c] * Cos(angle) - rows[2][c] * Sin(angle)],
             [c \in 1..3 |-> sx * rows[1][c] * Sin(angle) + rows[2][c] * Cos(angle)],
             rows[3] >>)

\* the function returned by get_projection(alpha) (alinea), applied to pt
projection_alinea(cam, alpha, pt) ==
    LET angle == Radians(alpha * cam.angle_factor)
    IN IF pt[1] = "batch" /\ Len(pt[2]) < 3 THEN Raised("IndexError")
       ELSE pixel_coordinates_alinea(
              LocalPoints(get_camera_frame(cam),
                          IF pt[1] = "pt" THEN Point(TurnedInverseX(pt[2], angle))
                          ELSE RowsAsCoordinates(pt[2], -1, angle)),
              cam.width_image, cam.height_image,
              cam.focal_length_x, cam.focal_length_y)

\* the function returned by get_projection2(alpha) (alinea), applied to pt
projection2(cam, alpha, pt) ==
    LET angle == Radians(alpha * cam.angle_factor)
    IN IF pt[1] = "batch" /\ Len(pt[2]) < 3 THEN Raised("IndexError")
       ELSE pixel_coordinates_alinea(
              LocalPoints(get_camera_frame(cam),
                          IF pt[1] = "pt" THEN Point(TurnedZ(pt[2], angle))
                          ELSE RowsAsCoordinates(pt[2], 1, angle)),
              cam.width_image, cam.height_image,
              cam.focal_length_x, cam.focal_length_y)

\* ------------------------------------------------------------------ the initial guess

\* the random stream yields whole numbers from 0 to MaxDraw
MaxDraw == 2

\* draw k (counted from 0) of the global numpy generator in state seed
Rand(seed, k) == (seed + k * (seed + 1)) % (MaxDraw + 1)

\* numpy.random.uniform(lo, hi) when the generator yields u: lo + (hi - lo) * u,
\* with u scaled to [0, 1)
Uniform(lo, hi, u) == lo + ((hi - lo) * u) \div (MaxDraw + 1)

\* a plausible slip: the second target starts on the same side as the first
TargetTwoGuessSameSide(x1, y1, z2) ==
    << Num(x1), Num(y1), Num(z2), Num(0), Num(0), Num(0) >>

\* target_2_pos_x = -target_1_pos_x, target_2_pos_y = -target_1_pos_y, a
\* fresh z, rotations 0
TargetTwoGuess(x1, y1, z2) ==
    << Num(-x1), Num(-y1), Num(z2), Num(0), Num(0), Num(0) >>

\* the six entries of target i in the guess of Calibration.find_parameters,
\* drawing from position d of the stream
GeneralTargetDraws(seed, d) ==
    << Num(Uniform(-1000, 1000, Rand(seed, d))),
       Num(Uniform(-1000, 1000, Rand(seed, d + 1))),
       Num(Uniform(-1000, 1000, Rand(seed, d + 2))),
       Num(Quarter), Num(0), Num(0) >>

\* the eight entries of an auxiliary camera in that guess
GeneralOtherDraws(seed, d) ==
    << Num(Uniform(1000, 10000, Rand(seed, d))),
       Num(Uniform(1000, 10000, Rand(seed, d + 1))),
       Num(Uniform(-200, 200, Rand(seed, d + 2))),
       Num(Uniform(-200, 500, Rand(seed, d + 3))),
       Num(Uniform(0, 5000, Rand(seed, d + 4))),
       Num(0), Num(0), Num(0) >>

RECURSIVE GeneralTargetsGuess(_, _, _)
\* for i in range(self._nb_targets): parameters += [...]
GeneralTargetsGuess(seed, i, T) ==
    IF i >= T THEN << >>
    ELSE GeneralTargetDraws(seed, 3 * i) \o GeneralTargetsGuess(seed, i + 1, T)

RECURSIVE GeneralOthersGuess(_, _, _, _)
\* for i in range(self._nb_others): parameters += [...]
GeneralOthersGuess(seed, j, T, A) ==
    IF j >= A THEN << >>
    ELSE GeneralOtherDraws(seed, 3 * T + 5 * j) \o GeneralOthersGuess(seed, j + 1, T, A)

\* the companion's stored value of a camera attribute
FromCameraTop(o, a) == o[F("camera_top", 0, a)]

\* a plausible slip: the test of self._camera_top never succeeds
NoCameraTop(o) == FALSE

\* self._camera_top is not None
HasCameraTop(o) == F("camera_top", 0, "pos_x") \in DOMAIN o

\* the list "parameters" an attempt of find_parameters hands to the minimizer
\* when the generator is in state seed
InitialGuess(v, T, A, o, seed) ==
    LET U(lo, hi, k) == Uniform(lo, hi, Rand(seed, k))
    IN  CASE v = "Top" \/ (v = "TopBis" /\ ~HasCameraTop(o)) ->
                << Num(U(0, 10000, 0)), Num(U(0, 10000, 1)),
                   Num(U(-500, 500, 2)), Num(U(-500, 500, 3)), Num(U(0, 10000, 4)),
                   Num(0), Num(0), Num(0) >>
          [] v = "TopBis" ->
                << FromCameraTop(o, "focal_length_x"), FromCameraTop(o, "focal_length_y"),
                   FromCameraTop(o, "pos_x"), FromCameraTop(o, "pos_y"),
                   FromCameraTop(o, "pos_z"), FromCameraTop(o, "rot_x"),
                   FromCameraTop(o, "rot_y"), FromCameraTop(o, "rot_z") >>
          [] v = "TopPosition" /\ ~HasCameraTop(o) ->
                << Num(U(-500, 500, 0)), Num(U(-500, 500, 1)), Num(U(0, 10000, 2)),
                   Num(0), Num(0), Num(0) >>
          [] v = "TopPosition" ->
                << FromCameraTop(o, "pos_x"), FromCameraTop(o, "pos_y"),
                   FromCameraTop(o, "pos_z"), FromCameraTop(o, "rot_x"),
                   FromCameraTop(o, "rot_y"), FromCameraTop(o, "rot_z") >>
          [] v = "TopFocal" ->
                << Num(U(0, 10000, 0)), Num(U(0, 10000, 1)) >>
          [] v = "Side1" ->
                << Num(U(1000, 10000, 0)), Num(U(1000, 10000, 1)),
                   Num(U(1000, 10000, 2)), Num(0),
                   Num(0), Num(0), Num(0),
                   Num(1),
                   Num(U(-1000, 1000, 3)), Num(U(-1000, 1000, 4)), Num(U(0, 1000, 5)),
                   Num(0), Num(0), Num(0) >>
          [] v = "Side2" ->
                << Num(U(1000, 10000, 0)), Num(U(1000, 10000, 1)),
                   Num(U(1000, 10000, 2)), Num(0),
                   Num(0), Num(0),
                   Num(1),
                   Num(U(-1000, 1000, 3)), Num(U(-1000, 1000, 4)), Num(U(0, 1000, 5)),
                   Num(0), Num(0), Num(0) >>
                \o TargetTwoGuess(U(-1000, 1000, 3), U(-1000, 1000, 4), U(0, 1000, 6))
          [] v = "Side2YXZ" ->
                << Num(U(1000, 10000, 0)), Num(U(1000, 10000, 1)),
                   Num(0), Num(-U(10000, 1000, 2)),
                   Num(0), Num(0),
                   Num(1),
                   Num(U(-1000, 1000, 3)), Num(U(-1000, 1000, 4)), Num(U(-1000, 1000, 5)),
                   Num(0), Num(0), Num(0) >>
                \o TargetTwoGuess(U(-1000, 1000, 3), U(-1000, 1000, 4), U(-1000, 1000, 6))
          [] v = "SideTop2" ->
                << Num(U(1000, 10000, 0)), Num(U(1000, 10000, 1)),
                   Num(U(4000, 10000, 2)), Num(0),
                   Num(0), Num(0),
                   Num(1),
                   Num(U(-1000, 1000, 3)), Num(U(-1000, 1000, 4)), Num(U(0, 1000, 5)),
                   Num(0), Num(0), Num(0) >>
                \o TargetTwoGuess(U(-1000, 1000, 3), U(-1000, 1000, 4), U(0, 1000, 6))
          [] v = "RegTop" -> [k \in 1..8 |-> Num(0)]
          [] v = "General" ->
                << Num(5500), Num(5500), Num(-5500), Num(0), Num(0), Num(0), Num(1) >>
                \o GeneralTargetsGuess(seed, 0, T) \o GeneralOthersGuess(seed, 0, T, A)

VARIABLES
    variant,              \* the calibration class of the object
    nb_targets,           \* self._nb_targets (targets of the rig)
    nb_others,            \* self._nb_others (auxiliary cameras of the rig)
    camera_top,           \* a companion top camera was given to the constructor
    clockwise,            \* self.clockwise of the generalized variant
    obj,                  \* the parameter fields of the object
    targets,              \* the targets argument of calibrate
    others,               \* the other_cameras argument of calibrate
    pc,                   \* where the client is: new, find, found, fitted, dumped, loaded, raised
    exc,                  \* the operation that ended in an exception, "" if none
    number_of_repetition, \* argument of find_parameters
    it,                   \* position of the range iterator of the attempt loop
    i,                    \* the Python variable i of find_parameters
    min_err,              \* local of find_parameters
    best_parameters,      \* local of find_parameters
    tried,                \* history: the attempts made so far in this call
    parameters,           \* history: what find_parameters returned to calibrate
    terms,                \* the addends of the last evaluation of the objective
    file,                 \* the record on disk
    saved,                \* history: the object the record was dumped from
    loaded,               \* the object load returned
    result,               \* what calibrate returned: the error and its divisor
    call                  \* the reading call of the last step: name, arguments, outcome

\* the rig and the observations: fixed once the object exists
rig == << variant, nb_targets, nb_others, camera_top, clockwise, targets, others >>

\* the locals of find_parameters
loop == << number_of_repetition, it, i, min_err, best_parameters, tried >>

\* the record on disk and what was made of it
disk == << file, saved, loaded >>

vars == << rig, obj, pc, exc, loop, parameters, terms, disk, result, call >>

\* a converged vector of length L: the optimizer's result, entry by entry
Vec(s, L) == [k \in 1..L |-> ValSeq[((s + k - 1) % NVals) + 1]]

\* a parameter vector as a Python value
Vector(xs) == <<"vec", xs>>

\* no object: nothing was dumped, nothing was loaded
NoObject == [class |-> "", nb_targets |-> 0, nb_others |-> 0, fields |-> << >>]

\* no record on disk
NoFile == << >>

\* calibrate has not returned
NoResult == [err |-> None, nb |-> 0, at |-> << >>]

\* no reading call was made
NoCall == [op |-> "", args |-> << >>, out |-> << >>]

\* a reading call
Call(op, args, out) == [op |-> op, args |-> args, out |-> out]

\* the number of targets a variant's calibrate takes
TargetsOf(v) ==
    CASE v \in {"Side2", "Side2YXZ", "SideTop2"} -> 2
      [] OTHER -> 1

\* variants constructed with (TRUE) or without (FALSE) a companion top camera
CompanionChoices(v) ==
    CASE v \in {"TopBis", "TopPosition"} -> BOOLEAN
      [] v \in {"TopFocal", "RegTop"} -> {TRUE}
      [] OTHER -> {FALSE}

RECURSIVE SumAngles(_)
\* sum of len(d) over a list of observation dicts
SumAngles(ds) ==
    IF ds = << >> THEN 0 ELSE Cardinality(Head(ds).angles) + SumAngles(Tail(ds))

RECURSIVE SumOthers(_)
SumOthers(os) ==
    IF os = << >> THEN 0 ELSE SumAngles(Head(os)) + SumOthers(Tail(os))

\* self._nb_corners / self._ref_number as calibrate computes it
NbCorners(v, tgts, os) ==
    IF v = "General" THEN SumAngles(tgts) + SumOthers(os) ELSE SumAngles(tgts)

\* fit_function adds nothing to err = 0
NoTerms(v, T, A, tgts, os) ==
    IF v = "General" THEN FitTerms(T, A, tgts, os) = {}
    ELSE \A k \in 1..Len(tgts) : tgts[k].angles = {}

\* the values the objective can take at a converged point
ObjectiveValues(v, T, A, tgts, os) ==
    IF NoTerms(v, T, A, tgts, os) THEN {Num(0)} ELSE ErrVals

\* the locals of find_parameters when no call is running
Idle ==
    /\ number_of_repetition' = 0
    /\ it' = 0
    /\ i' = 0
    /\ min_err' = Inf
    /\ best_parameters' = None
    /\ tried' = {}

Init ==
    /\ variant \in Variants
    /\ nb_targets \in IF variant = "General" THEN 0..MaxTargets ELSE {TargetsOf(variant)}
    /\ nb_others \in IF variant = "General" THEN 0..MaxOthers ELSE {0}
    /\ camera_top \in CompanionChoices(variant)
    /\ clockwise = TRUE
    /\ obj = NewObject(variant, nb_targets, nb_others,
                       IF camera_top THEN CompanionTop ELSE NoCompanion)
    /\ \E angles \in AngleSets :
       \E n \in IF Cardinality(angles) = 1 THEN {1, MaxCorners} ELSE {1} :
         /\ targets = UniformTargets(nb_targets, angles, n)
         /\ others = UniformOthers(nb_targets, nb_others, angles, n)
    /\ pc = "new"
    /\ exc = ""
    /\ number_of_repetition = 0
    /\ it = 0
    /\ i = 0
    /\ min_err = Inf
    /\ best_parameters = None
    /\ tried = {}
    /\ parameters = None
    /\ terms = {}
    /\ file = NoFile
    /\ saved = NoObject
    /\ loaded = NoObject
    /\ result = NoResult
    /\ call = NoCall

\* ------------------------------------------------------------------ calibrate and find_parameters

\* calibrate up to its call of find_parameters(n)
Calibrate(n) ==
    /\ pc = "new"
    /\ IF variant = "General" /\ CalibrateRaises(nb_others, others)
       THEN /\ pc' = "raised"
            /\ exc' = "calibrate"
            /\ UNCHANGED << obj, loop >>
       ELSE /\ pc' = "find"
            /\ obj' = PreStore(variant, obj)
            /\ number_of_repetition' = n
            /\ it' = 0
            /\ i' = 0
            /\ min_err' = Inf
            /\ best_parameters' = None
            /\ tried' = {}
            /\ UNCHANGED exc
    /\ UNCHANGED << rig, parameters, terms, disk, result, call >>

\* the value of the Python variable i when an attempt ends: the inner loops
\* "for i in range(self._nb_targets)" and "for i in range(self._nb_others)"
\* of Calibration.find_parameters assign it, the range iterator of the outer
\* loop is not touched
LoopVariable(v, k, T, A) ==
    IF v # "General" THEN k
    ELSE IF A > 0 THEN A - 1
    ELSE IF T > 0 THEN T - 1
    ELSE k

\* the objective cannot be evaluated on the vector find_parameters builds
AttemptRaises ==
    \/ FitUnpackFails(variant, nb_targets, nb_others,
                      Len(FindLayout(variant, nb_targets, nb_others)))
    \/ variant = "General" /\ FitRaises(nb_targets, nb_others, targets, others)

\* one iteration of "for i in range(number_of_repetition + 1)": initial
\* guess, minimization (converging to Vec(s, L)), evaluation (giving err),
\* comparison with min_err
AttemptStep(s, err) ==
    /\ pc = "find"
    /\ it <= number_of_repetition
    /\ IF AttemptRaises
       THEN /\ pc' = "raised"
            /\ exc' = "find_parameters"
            /\ UNCHANGED loop
       ELSE /\ err \in ObjectiveValues(variant, nb_targets, nb_others, targets, others)
            /\ it' = it + 1
            /\ i' = LoopVariable(variant, it, nb_targets, nb_others)
            /\ tried' = tried \cup {[s |-> s, err |-> err]}
            /\ IF Lt(err, min_err)
               THEN /\ min_err' = err
                    /\ best_parameters' =
                         Vector(Vec(s, Len(FindLayout(variant, nb_targets, nb_others))))
               ELSE UNCHANGED << min_err, best_parameters >>
            /\ UNCHANGED << pc, exc, number_of_repetition >>
    /\ UNCHANGED << rig, obj, parameters, terms, disk, result >>

\* an attempt, as the client of calibrate sees it
Attempt(s, err) == AttemptStep(s, err) /\ UNCHANGED call

\* an attempt together with the list it handed to the minimizer, the
\* generator being in state seed when the attempt begins
GuessedAttempt(seed, s, err) ==
    /\ AttemptStep(s, err)
    /\ call' = Call("minimize", << seed >>,
                    InitialGuess(variant, nb_targets, nb_others, obj, seed))

\* the range is exhausted: "return best_parameters" to calibrate
FindReturn ==
    /\ pc = "find"
    /\ it > number_of_repetition
    /\ pc' = "found"
    /\ parameters' = best_parameters
    /\ UNCHANGED << rig, obj, exc, loop, terms, disk, result, call >>

\* the list given to "err = self.fit_function(parameters)" at the end of
\* calibrate: the returned vector after the in-place wrap loop, if any
EvaluatedAt(v, xs) == WrapInPlace(v, xs)

\* calibrate after find_parameters returned: wrap, assign, return
\* err / number of observations
CalibrateStore ==
    /\ pc = "found"
    /\ IF \/ parameters[1] = "none"
          \/ StoreFails(variant, nb_targets, nb_others, Len(parameters[2]))
       THEN /\ pc' = "raised"
            /\ exc' = "calibrate"
            /\ UNCHANGED << obj, result >>
       ELSE /\ obj' = Stored(variant, nb_targets, nb_others, obj, parameters[2])
            /\ IF NbCorners(variant, targets, others) = 0
               THEN pc' = "raised" /\ exc' = "calibrate" /\ UNCHANGED result
               ELSE /\ pc' = "fitted"
                    /\ result' = [err |-> min_err,
                                  nb |-> NbCorners(variant, targets, others),
                                  at |-> EvaluatedAt(variant, parameters[2])]
                    /\ UNCHANGED exc
    /\ Idle
    /\ UNCHANGED << rig, parameters, terms, disk, call >>

\* ------------------------------------------------------------------ persistence

\* c.dump(path) on a fitted object
Dump ==
    /\ pc = "fitted"
    /\ HasDump(variant)
    /\ IF DumpRaises(variant, obj)
       THEN /\ pc' = "raised"
            /\ exc' = "dump"
            /\ UNCHANGED disk
       ELSE /\ pc' = "dumped"
            /\ file' = DumpRecord(variant, obj, nb_targets)
            /\ saved' = [class |-> variant, nb_targets |-> nb_targets,
                         nb_others |-> nb_others, fields |-> obj]
            /\ UNCHANGED << exc, loaded >>
    /\ call' = NoCall
    /\ UNCHANGED << rig, obj, loop, parameters, terms, result >>

\* a record of the variant's format is on disk without this object having
\* been dumped
ExternalFile ==
    /\ pc = "new"
    /\ pc' = "dumped"
    /\ file' = SampleRecord(variant, nb_targets)
    /\ UNCHANGED << rig, obj, exc, loop, parameters, terms, saved, loaded, result, call >>

\* the record has every top-level key and every target key load reads
Complete(v, rec) ==
    /\ \A n \in 1..Len(KeysOf(v)) : KeysOf(v)[n][1] \in DOMAIN rec
    /\ v = "General" =>
         /\ "targets_parameters" \in DOMAIN rec
         /\ \A t \in 1..LoadedTargets(rec), n \in 1..6 :
              TargetDictKeys[n] \in DOMAIN rec["targets_parameters"][2][t][2]

\* the record on disk loses one top-level key
DropKey(key) ==
    /\ pc = "dumped"
    /\ Complete(variant, file)
    /\ key \in DOMAIN file
    /\ file' = [k \in (DOMAIN file) \ {key} |-> file[k]]
    /\ UNCHANGED << rig, obj, pc, exc, loop, parameters, terms, saved, loaded, result, call >>

\* one target of the record on disk loses one of its keys
DropTargetKey(t, key) ==
    /\ pc = "dumped"
    /\ variant = "General"
    /\ Complete(variant, file)
    /\ t \in 1..LoadedTargets(file)
    /\ file' = [file EXCEPT !["targets_parameters"] =
                  List([n \in 1..LoadedTargets(file) |->
                          IF n = t
                          THEN Dict([k \in (DOMAIN @[2][n][2]) \ {key} |-> @[2][n][2][k]])
                          ELSE @[2][n]])]
    /\ UNCHANGED << rig, obj, pc, exc, loop, parameters, terms, saved, loaded, result, call >>

\* the static load(path) of the variant
Load ==
    /\ pc = "dumped"
    /\ IF LoadRaises(variant, file)
       THEN /\ pc' = "raised"
            /\ exc' = "load"
            /\ loaded' = NoObject
       ELSE /\ pc' = "loaded"
            /\ loaded' = LoadObject(variant, file)
            /\ UNCHANGED exc
    /\ UNCHANGED << rig, obj, loop, parameters, terms, file, saved, result, call >>

\* angle_factor entries of the vectors the minimizer evaluates
AngleFactors == {1, 2}

\* the angle given to target_frame in the loop of the reference camera
RefAngle(alpha, angle_factor, cw) ==
    LET scaled == alpha * angle_factor
    IN Radians(IF cw THEN scaled * (-1) ELSE scaled)

\* a plausible slip: the loop of the auxiliary cameras forgets self.clockwise
OtherAngleUnsigned(alpha, angle_factor, cw) == Radians(alpha * angle_factor)

\* the angle given to target_frame in the loop of the auxiliary cameras
OtherAngle(alpha, angle_factor, cw) ==
    LET scaled == alpha * angle_factor
    IN Radians(IF cw THEN scaled * (-1) ELSE scaled)

\* the addend with the angle its target frame is built at
WithAngle(t, angle_factor, cw) ==
    t @@ [factor |-> angle_factor,
          angle |-> IF t.cam = 0 THEN RefAngle(t.alpha, angle_factor, cw)
                    ELSE OtherAngle(t.alpha, angle_factor, cw)]

\* one call of fit_function by the minimizer, on a vector whose angle_factor
\* entry is angle_factor
Evaluate(angle_factor) ==
    /\ pc = "find"
    /\ IF FitRaises(nb_targets, nb_others, targets, others)
       THEN /\ pc' = "raised"
            /\ exc' = "fit_function"
            /\ UNCHANGED terms
       ELSE /\ pc' = "evaluated"
            /\ terms' = { WithAngle(t, angle_factor, clockwise) :
                            t \in FitTerms(nb_targets, nb_others, targets, others) }
            /\ UNCHANGED exc
    /\ UNCHANGED << rig, obj, loop, parameters, disk, result, call >>

\* the methods of a variant that only read the parameter fields
Getters(v) ==
    CASE v \in {"SideTop2", "RegTop"} -> {}
      [] v \in TopLike -> {"get_projection", "project_points_3d"}
      [] v = "Side1" -> {"get_projection", "get_target_projected",
                        "get_ref_points_global_3d"}
      [] OTHER -> {"get_projection", "get_target_1_projected",
                   "get_target_1_ref_points_global_3d"}

\* a plausible slip: get_projection keeps the scaled angle in _angle_factor
FieldsAfterCaching(m, o) ==
    IF m = "get_projection" THEN Upd(o, Set(AngleFactor, None)) ELSE o

\* the parameter fields after method m returned: none is assigned
FieldsAfter(m, o) == o

\* a reading method is called on the fitted object
Getter(m) ==
    /\ pc = "fitted"
    /\ m \in Getters(variant)
    /\ obj' = FieldsAfter(m, obj)
    /\ call' = Call(m, << >>, << >>)
    /\ UNCHANGED << rig, pc, exc, loop, parameters, terms, disk, result >>

Next ==
    \/ \E n \in 0..MaxRep : Calibrate(n)
    \/ \E m \in UNION {Getters(v) : v \in Variants} : Getter(m)
    \/ \E s \in 0..(NVals - 1), err \in ErrVals \cup {Num(0)} : Attempt(s, err)
    \/ FindReturn
    \/ CalibrateStore
    \/ Dump
    \/ ExternalFile
    \/ \E key \in {KeysOf(variant)[n][1] : n \in 1..Len(KeysOf(variant))}
                    \cup {"targets_parameters"} : DropKey(key)
    \/ \E t \in 1..MaxTargets, key \in {TargetDictKeys[n] : n \in 1..6} :
         DropTargetKey(t, key)
    \/ Load

Spec == Init /\ [][Next]_vars

\* ------------------------------------------------------------------ the objective on any observations

\* a generalized rig of any topology, handed targets and auxiliary-camera
\* detections of any number: each target has its own layout size, every
\* camera detects every corner of the layout of each target it is given
InitObjective ==
    /\ variant = "General"
    /\ nb_targets \in 0..MaxTargets
    /\ nb_others \in 0..MaxOthers
    /\ camera_top = FALSE
    /\ clockwise \in BOOLEAN
    /\ obj = NewObject(variant, nb_targets, nb_others, NoCompanion)
    /\ \E S \in 0..MaxTargets :
         \E lay \in [1..S -> 1..MaxCorners], angles \in AngleSets :
           /\ targets = [k \in 1..S |-> Target(angles, lay[k], lay[k])]
           /\ \E C \in 0..MaxOthers, oangles \in AngleSets :
                others = [c \in 1..C |-> [j \in 1..S |-> Seen(oangles, lay[j])]]
    /\ pc = "new"
    /\ exc = ""
    /\ number_of_repetition = 0
    /\ it = 0
    /\ i = 0
    /\ min_err = Inf
    /\ best_parameters = None
    /\ tried = {}
    /\ parameters = None
    /\ terms = {}
    /\ file = NoFile
    /\ saved = NoObject
    /\ loaded = NoObject
    /\ result = NoResult
    /\ call = NoCall

NextObjective ==
    \/ Calibrate(0)
    \/ \E angle_factor \in AngleFactors : Evaluate(angle_factor)

SpecObjective == InitObjective /\ [][NextObjective]_vars

\* ------------------------------------------------------------------ the search on any topology

\* generator states an attempt may begin in
Seeds == 0..MaxDraw

\* every variant; the generalized rig is handed targets and auxiliary-camera
\* detections of any number, one corner per target
InitSearch ==
    /\ variant \in Variants
    /\ nb_targets \in IF variant = "General" THEN 0..MaxTargets ELSE {TargetsOf(variant)}
    /\ nb_others \in IF variant = "General" THEN 0..MaxOthers ELSE {0}
    /\ camera_top \in CompanionChoices(variant)
    /\ clockwise = TRUE
    /\ obj = NewObject(variant, nb_targets, nb_others,
                       IF camera_top THEN CompanionTop ELSE NoCompanion)
    /\ \E S \in IF variant = "General" THEN 0..MaxTargets ELSE {nb_targets} :
       \E C \in IF variant = "General" THEN 0..MaxOthers ELSE {0} :
         /\ targets = UniformTargets(S, {0}, 1)
         /\ others = UniformOthers(S, C, {0}, 1)
    /\ pc = "new"
    /\ exc = ""
    /\ number_of_repetition = 0
    /\ it = 0
    /\ i = 0
    /\ min_err = Inf
    /\ best_parameters = None
    /\ tried = {}
    /\ parameters = None
    /\ terms = {}
    /\ file = NoFile
    /\ saved = NoObject
    /\ loaded = NoObject
    /\ result = NoResult
    /\ call = NoCall

NextSearch ==
    \/ \E n \in 0..MaxRep : Calibrate(n)
    \/ \E seed \in Seeds, s \in 0..(NVals - 1), err \in ErrVals \cup {Num(0)} :
         GuessedAttempt(seed, s, err)
    \/ FindReturn
    \/ CalibrateStore

SpecSearch == InitSearch /\ [][NextSearch]_vars

\* ------------------------------------------------------------------ the frames and the projection

\* points in space, one of them in the plane z = 0 of the camera
Points3 == { <<1, 0, 2>>, <<0, 1, 2>>, <<1, 2, 1>>, <<2, -1, 0>>, <<-3, 2, -1>> }

\* rows of the batches
BatchRows == { <<1, 0, 2>>, <<1, 2, 1>>, <<-3, 2, -1>> }

\* a point, or a batch of up to MaxBatch points
PointArgs ==
    { Point(p) : p \in Points3 }
    \cup { Batch(rows) : rows \in UNION { [1..n -> BatchRows] : n \in 1..MaxBatch } }

\* rotation angles: whole quarter turns, a negative one and a full turn among them
Turns == { -Quarter, 0, Quarter, 2 * Quarter, 3 * Quarter, TwoPi }

\* base positions of a target or a camera
Positions == { <<0, 0, 0>>, <<3, 0, 1>>, <<2, -5, 4>> }

\* rotation triples (rot_x, rot_y, rot_z)
Rotations ==
    { <<0, 0, 0>>, <<Quarter, 0, 0>>, <<Quarter, Quarter, 0>>,
      <<0, Quarter, 2 * Quarter>>, <<Quarter, 3 * Quarter, Quarter>> }

\* acquisition angles, in degrees
Alphas == {0, 90, 180, 270}

\* calibrated cameras
Cameras ==
    { Camera(20, 10, 3, 2, <<2, -5, 4>>, rot, af, axis) :
        rot \in {<<0, 0, 0>>, <<Quarter, 0, 3 * Quarter>>},
        af \in AngleFactors, axis \in {TopAxis, YXZAxis} }

InitGeometry ==
    /\ variant = "General"
    /\ nb_targets = 0
    /\ nb_others = 0
    /\ camera_top = FALSE
    /\ clockwise = TRUE
    /\ obj = NewObject(variant, nb_targets, nb_others, NoCompanion)
    /\ targets = << >>
    /\ others = << >>
    /\ pc = "new"
    /\ exc = ""
    /\ number_of_repetition = 0
    /\ it = 0
    /\ i = 0
    /\ min_err = Inf
    /\ best_parameters = None
    /\ tried = {}
    /\ parameters = None
    /\ terms = {}
    /\ file = NoFile
    /\ saved = NoObject
    /\ loaded = NoObject
    /\ result = NoResult
    /\ call = NoCall

\* everything but the record of the call: the functions below keep no state,
\* a run makes one call
state == << rig, obj, pc, exc, loop, parameters, terms, disk, result >>

\* cam.get_projection(alpha)(pts), openalea
GetProjection(cam, alpha, pts) ==
    /\ call = NoCall
    /\ call' = Call("get_projection", <<cam, alpha, pts>>, projection(cam, alpha, pts))
    /\ UNCHANGED state

\* cam.get_projection(alpha)(pt), alinea
GetProjectionAlinea(cam, alpha, pt) ==
    /\ call = NoCall
    /\ call' = Call("get_projection_alinea", <<cam, alpha, pt>>,
                    projection_alinea(cam, alpha, pt))
    /\ UNCHANGED state

\* cam.get_projection2(alpha)(pt), alinea
GetProjection2(cam, alpha, pt) ==
    /\ call = NoCall
    /\ call' = Call("get_projection2", <<cam, alpha, pt>>, projection2(cam, alpha, pt))
    /\ UNCHANGED state

\* CalibrationCamera.pixel_coordinates(point_3d, ...), openalea
PixelCoordinates(point_3d, focal_length_x, focal_length_y) ==
    /\ call = NoCall
    /\ call' = Call("pixel_coordinates",
                    <<point_3d, 20, 10, focal_length_x, focal_length_y>>,
                    pixel_coordinates(point_3d, 20, 10, focal_length_x, focal_length_y))
    /\ UNCHANGED state

\* CalibrationCamera.pixel_coordinates(point_3d, ...), alinea
PixelCoordinatesAlinea(point_3d, focal_length_x, focal_length_y) ==
    /\ call = NoCall
    /\ call' = Call("pixel_coordinates_alinea",
                    <<point_3d, 20, 10, focal_length_x, focal_length_y>>,
                    pixel_coordinates_alinea(point_3d, 20, 10,
                                             focal_length_x, focal_length_y))
    /\ UNCHANGED state

\* CalibrationCamera.target_frame(pos_x, ..., rot_z, alpha)
TargetFrame(pos, rot, alpha) ==
    /\ call = NoCall
    /\ call' = Call("target_frame", <<pos, rot, alpha>>,
                    target_frame(pos[1], pos[2], pos[3], rot[1], rot[2], rot[3], alpha))
    /\ UNCHANGED state

\* CalibrationCamera.camera_frame(pos_x, ..., rot_z, origin_axis)
CameraFrame(pos, rot, origin_axis) ==
    /\ call = NoCall
    /\ call' = Call("camera_frame", <<pos, rot, origin_axis>>,
                    camera_frame(pos[1], pos[2], pos[3], rot[1], rot[2], rot[3],
                                 origin_axis))
    /\ UNCHANGED state

NextGeometry ==
    \/ \E cam \in Cameras, alpha \in Alphas, pts \in PointArgs :
         GetProjection(cam, alpha, pts)
    \/ \E cam \in Cameras, alpha \in Alphas, pts \in PointArgs :
         GetProjectionAlinea(cam, alpha, pts)
    \/ \E cam \in Cameras, alpha \in Alphas, pts \in PointArgs :
         GetProjection2(cam, alpha, pts)
    \/ \E pts \in PointArgs, fx \in {1, 3}, fy \in {2, 5} :
         PixelCoordinates(pts, fx, fy)
    \/ \E pts \in PointArgs, fx \in {1, 3}, fy \in {2, 5} :
         PixelCoordinatesAlinea(pts, fx, fy)
    \/ \E pos \in Positions, rot \in Rotations, alpha \in Turns :
         TargetFrame(pos, rot, alpha)
    \/ \E pos \in Positions, rot \in Rotations, axis \in {TopAxis, SideAxis, YXZAxis} :
         CameraFrame(pos, rot, axis)

SpecGeometry == InitGeometry /\ [][NextGeometry]_vars

\* ------------------------------------------------------------------ the position of a point seen by several cameras

\* camera ids, in the order "for id_camera in pt2d" walks them
CameraIds == <<"side", "top", "zoom">>

\* acquisition angles in degrees, in the order "for angle in pt2d[id_camera]"
\* walks them
ObservedAngles == <<0, 90, 270>>

\* pt2d[id_camera]: the pixel seen at every angle of one camera
AngleDicts == { [a \in A |-> <<12, 3>>] : A \in { {}, {0}, {0, 90}, {90, 270} } }

\* pt2d: the observations of one point, keyed by camera id, then by angle
Pt2dArgs == UNION { [I -> AngleDicts] : I \in SUBSET {"side", "top", "zoom"} }

\* fitted cameras handed in calibrations
FittedCameras ==
    { Camera(20, 10, 3, 2, <<2, -5, 4>>, <<Quarter, 0, 3 * Quarter>>, 2, YXZAxis),
      Camera(20, 10, 1, 5, <<0, 0, 6>>, <<0, 0, 0>>, 1, TopAxis) }

\* calibrations: the fitted camera of some of the ids, never of "zoom"
CalibrationsArgs == UNION { [J -> FittedCameras] : J \in SUBSET {"side", "top"} }

\* the point the minimizer evaluates: its start [0.0] * 3 among them
X0Args == { <<0, 0, 0>>, <<1, 2, 1>>, <<-3, 2, -1>> }

\* the (id_camera, angle) pairs of the two nested for loops, in order
Walk(pt2d) ==
    LET all == [k \in 1..(Len(CameraIds) * Len(ObservedAngles)) |->
                  << CameraIds[((k - 1) \div Len(ObservedAngles)) + 1],
                     ObservedAngles[((k - 1) % Len(ObservedAngles)) + 1] >>]
        Held(p) == p[1] \in DOMAIN pt2d /\ p[2] \in DOMAIN pt2d[p[1]]
    IN SelectSeq(all, Held)

\* numpy.linalg.norm(numpy.array(pt) - observed).sum(): the length of the
\* difference (du, dv), kept as the pair
Norm(pt, observed) ==
    LET du == Plus(pt[2], -observed[1], 1)
        dv == Plus(pt[3], -observed[2], 1)
    IN IF du = NaN \/ dv = NaN THEN NaN
       ELSE IF du[1] = "inf" \/ dv[1] = "inf" THEN Inf
       ELSE <<"norm", du, dv>>

\* a plausible slip: the angle factor of the camera is left out
ObservationAngleUnscaled(angle, calib) == Radians(angle)

\* alpha = math.radians(angle * calib._angle_factor)
ObservationAngle(angle, calib) == Radians(angle * calib.angle_factor)

\* err of one observation: the unknown point turned about Z, taken to the
\* camera frame, projected, compared with the pixel seen
ReprojectionErr(calib, x0, angle, observed) ==
    LET fr_cam == camera_frame(calib.pos[1], calib.pos[2], calib.pos[3],
                               calib.rot[1], calib.rot[2], calib.rot[3],
                               calib.origin_axis)
        alpha == ObservationAngle(angle, calib)
        origin == << x0[1] * Cos(alpha) - x0[2] * Sin(alpha),
                     x0[1] * Sin(alpha) + x0[2] * Cos(alpha),
                     x0[3] >>
        pt == pixel_coordinates(Point(local_point(fr_cam, origin)),
                                calib.width_image, calib.height_image,
                                calib.focal_length_x, calib.focal_length_y)
    IN Norm(pt, observed)

\* sum_err = 0: a sum is kept as its summands, each with the number of
\* times it was added
ZeroSum == [d \in {} |-> 0]

\* sum_err += err
AddErr(sum_err, err) ==
    [d \in DOMAIN sum_err \cup {err} |->
       IF d \in DOMAIN sum_err
       THEN sum_err[d] + (IF d = err THEN 1 ELSE 0)
       ELSE 1]

\* the float a sum is: nan as soon as a summand is, else inf
FloatSum(sum_err) ==
    IF NaN \in DOMAIN sum_err THEN NaN
    ELSE IF Inf \in DOMAIN sum_err THEN Inf
    ELSE <<"sum", sum_err>>

\* fit_function(x0) of find_position_3d_points(pt2d, calibrations) is entered
FitFunction3d(pt2d, calibrations, x0) ==
    /\ pc = "new"
    /\ call = NoCall
    /\ call' = Call("find_position_3d_points", <<pt2d, calibrations, x0>>, None)
    /\ pc' = "sum"
    /\ i' = 0
    /\ terms' = ZeroSum
    /\ UNCHANGED << rig, obj, exc, number_of_repetition, it, min_err,
                    best_parameters, tried, parameters, disk, result >>

\* one turn of the inner for loop
Observation ==
    /\ pc = "sum"
    /\ i < Len(Walk(call.args[1]))
    /\ LET pt2d == call.args[1]
           calibrations == call.args[2]
           id_camera == Walk(pt2d)[i + 1][1]
           angle == Walk(pt2d)[i + 1][2]
       IN terms' = IF id_camera \in DOMAIN calibrations
                   THEN AddErr(terms, ReprojectionErr(calibrations[id_camera],
                                                      call.args[3], angle,
                                                      pt2d[id_camera][angle]))
                   ELSE terms
    /\ i' = i + 1
    /\ UNCHANGED << rig, obj, pc, exc, number_of_repetition, it, min_err,
                    best_parameters, tried, parameters, disk, result, call >>

\* return sum_err
ReturnSum ==
    /\ pc = "sum"
    /\ i = Len(Walk(call.args[1]))
    /\ call' = [call EXCEPT !.out = FloatSum(terms)]
    /\ pc' = "summed"
    /\ UNCHANGED << rig, obj, exc, loop, parameters, terms, disk, result >>

NextTriangulate ==
    \/ \E pt2d \in Pt2dArgs, calibrations \in CalibrationsArgs, x0 \in X0Args :
         FitFunction3d(pt2d, calibrations, x0)
    \/ Observation
    \/ ReturnSum

SpecTriangulate == InitGeometry /\ [][NextTriangulate]_vars

\* ------------------------------------------------------------------ properties

\* C1: find_parameters(n) ends after exactly n + 1 attempts on every
\* variant: it never ends in an exception, and when it returns the attempt
\* loop has run number_of_repetition + 1 times.
C1_ExactlyNPlusOneAttempts ==
    /\ ~(pc = "raised" /\ exc = "find_parameters")
    /\ pc = "found" => it = number_of_repetition + 1

\* a <= b on floats
Le(a, b) == Lt(a, b) \/ (a[1] # "nan" /\ a = b)

\* C2: what find_parameters returns is the converged vector of one of the
\* attempts of the call, and the objective of that attempt is less than or
\* equal to the objective of every attempt of the call.
C2_ReturnsBestAttempt ==
    pc = "found" =>
        \E a \in tried :
            /\ parameters =
                 Vector(Vec(a.s, Len(FindLayout(variant, nb_targets, nb_others))))
            /\ \A b \in tried : Le(a.err, b.err)

\* the indices of the generalized vector that the reference camera, target
\* i and auxiliary camera j take
RefSlice == 0..6

TargetSlice(n) == (7 + 6 * n)..(12 + 6 * n)

OtherSlice(n, T) == (7 + 6 * T + 8 * n)..(7 + 6 * T + 8 * n + 7)

\* C3: in the generalized variant with T targets and A auxiliary cameras the
\* vector has 7 + 6T + 8A entries: the seven reference-camera values, then
\* six per target from 7 + 6i, then eight per auxiliary camera from
\* 7 + 6T + 8j; find_parameters builds it, fit_function unpacks it and
\* calibrate reads it back at the same indices; the slices are pairwise
\* disjoint and cover the vector.
C3_GeneralLayout ==
    variant = "General" /\ pc \in {"find", "found", "fitted"} =>
        LET T == nb_targets
            A == nb_others
            lay == FindLayout(variant, T, A)
            L == Len(lay)
            store == StoreSeq(variant, T, A)
            own == { n \in 1..Len(store) :
                       ~(store[n][2][1] = "other" /\ Attr(store[n][2]) = "angle_factor") }
        IN  /\ L = 7 + 6 * T + 8 * A
            /\ (pc = "found" /\ parameters[1] = "vec") => Len(parameters[2]) = L
            /\ [k \in 1..7 |-> lay[k]] =
                 << F("cam", 0, "focal_length_x"), F("cam", 0, "focal_length_y"),
                    F("cam", 0, "pos_y"), F("cam", 0, "rot_x"), F("cam", 0, "rot_y"),
                    F("cam", 0, "rot_z"), F("cam", 0, "angle_factor") >>
            /\ \A n \in 0..(T - 1), k \in 0..5 :
                 At(lay, 7 + 6 * n + k) = F("target", n, CamPose[k + 1])
            /\ \A n \in 0..(A - 1), k \in 0..7 :
                 At(lay, 7 + 6 * T + 8 * n + k) = Cam8("other", n)[k + 1]
            /\ ~FitUnpackFails(variant, T, A, L)
            /\ GeneralFitReads(T, A, L) = { <<k, At(lay, k)>> : k \in 0..(L - 1) }
            /\ \A n \in own : store[n][1] < L /\ At(lay, store[n][1]) = store[n][2]
            /\ { store[n][1] : n \in own } = 0..(L - 1)
            /\ \A n \in (1..Len(store)) \ own : store[n][1] = 6
            /\ \A n, m \in 0..(T - 1) : n # m => TargetSlice(n) \cap TargetSlice(m) = {}
            /\ \A n, m \in 0..(A - 1) :
                 n # m => OtherSlice(n, T) \cap OtherSlice(m, T) = {}
            /\ \A n \in 0..(T - 1), m \in 0..(A - 1) :
                 /\ RefSlice \cap TargetSlice(n) = {}
                 /\ RefSlice \cap OtherSlice(m, T) = {}
                 /\ TargetSlice(n) \cap OtherSlice(m, T) = {}
            /\ RefSlice \cup UNION { TargetSlice(n) : n \in 0..(T - 1) }
                    \cup UNION { OtherSlice(m, T) : m \in 0..(A - 1) } = 0..(L - 1)

\* a generalized rig with two targets and an auxiliary camera has been fitted
C3_Witness ==
    /\ variant = "General"
    /\ pc = "fitted"
    /\ nb_targets = 2
    /\ nb_others = 1

\* calibrate is handed as many targets and auxiliary cameras as the rig was
\* constructed with
Matched == Len(targets) = nb_targets /\ Len(others) = nb_others

\* C4: the objective has exactly one addend for every detected corner handed
\* to calibrate (every camera, every target, every angle): none is left out
\* and none is counted twice.  Stated for observations that match the rig.
C4_OneTermPerCorner ==
    pc = "evaluated" /\ Matched =>
        \A o \in Supplied(targets, others) :
            Cardinality({ t \in terms :
                            <<t.cam, t.tgt, t.alpha, t.obsrow>> = o }) = 1

\* C5: every addend of the generalized objective compares the detections of
\* target j with target j's own layout placed with target j's own pose.
\* Stated for observations that match the rig.
C5_OwnLayoutOwnPose ==
    pc = "evaluated" /\ Matched => \A t \in terms : t.layout = t.tgt /\ t.pose = t.tgt

\* C6: once calibrate has returned, every rotation angle of the object lies
\* in [0, 2 pi).
C6_RotationsInRange ==
    pc = "fitted" =>
        \A f \in DOMAIN obj :
            IsRot(f) /\ IsNum(obj[f]) => 0 <= obj[f][2] /\ obj[f][2] < TwoPi

\* C7: every entry of the vector that is not a rotation (focal lengths,
\* positions, the angle factor) is stored with exactly the value
\* find_parameters returned.
C7_NonRotationsStoredExactly ==
    pc = "fitted" =>
        LET store == StoreSeq(variant, nb_targets, nb_others)
        IN  \A n \in 1..Len(store) :
                ~IsRot(store[n][2]) =>
                    obj[store[n][2]] = Num(At(parameters[2], store[n][1]))

\* C8: every stored rotation angle differs from the value find_parameters
\* returned for it by a whole number of turns.
C8_WrapIsModuloTwoPi ==
    pc = "fitted" =>
        LET store == StoreSeq(variant, nb_targets, nb_others)
        IN  \A n \in 1..Len(store) :
                IsRot(store[n][2]) =>
                    (obj[store[n][2]][2] - At(parameters[2], store[n][1])) % TwoPi = 0

\* C9: dump of a fitted object succeeds, and load of the record it wrote
\* gives an object of the same topology with the same value in every field.
C9_RoundTrip ==
    /\ ~(pc = "raised" /\ exc = "dump")
    /\ (pc = "loaded" /\ saved.class # "" /\ file = DumpRecord(variant, obj, nb_targets)) =>
         /\ loaded.nb_targets = saved.nb_targets
         /\ loaded.nb_others = saved.nb_others
         /\ loaded.fields = saved.fields

\* C10: load of a record that lacks a key the variant's load reads ends in
\* an exception and returns no object; an object that load returned holds,
\* in every field it read, the value the record has for the key.
C10_MissingKeyRaises ==
    /\ (pc \in {"loaded", "raised"} /\ exc \in {"", "load"} /\ file # NoFile
           /\ ~Complete(variant, file)) =>
         /\ pc = "raised"
         /\ exc = "load"
         /\ loaded = NoObject
    /\ pc = "loaded" =>
         \A n \in 1..Len(KeysOf(variant)) :
            KeysOf(variant)[n][1] # "cam_origin_axis" =>
                loaded.fields[KeysOf(variant)[n][2]] = file[KeysOf(variant)[n][1]]

\* load has ended in an exception on a record that lacks a key
C10_Witness ==
    /\ pc = "raised"
    /\ exc = "load"
    /\ ~Complete(variant, file)
    /\ "cam_origin_axis" \in DOMAIN file

\* what a projection is documented to return for one world point p: p turned
\* about the world Z axis by theta, taken to the camera frame, projected
TurnedThenProjected(cam, theta, p) ==
    LET q == local_point(get_camera_frame(cam),
                         << p[1] * Cos(theta) - p[2] * Sin(theta),
                            p[1] * Sin(theta) + p[2] * Cos(theta),
                            p[3] >>)
    IN << PixelU(q, cam.width_image, cam.focal_length_x),
          PixelV(q, cam.height_image, cam.focal_length_y) >>

\* C11: the function returned by get_projection(alpha) maps a world point to
\* the pixel coordinates of the point turned about the world Z axis by
\* radians(alpha * angle_factor), expressed in the camera frame and
\* projected; on a batch it does so for every row.
C11_ProjectionTurnsAboutZ ==
    call.op \in {"get_projection", "get_projection_alinea", "get_projection2"} =>
        LET cam == call.args[1]
            theta == Radians(call.args[2] * cam.angle_factor)
            pts == call.args[3]
        IN IF pts[1] = "pt"
           THEN call.out = <<"uv", TurnedThenProjected(cam, theta, pts[2])[1],
                                   TurnedThenProjected(cam, theta, pts[2])[2]>>
           ELSE call.out = <<"rows", [r \in 1..Len(pts[2]) |->
                                        TurnedThenProjected(cam, theta, pts[2][r])]>>

\* q is the float n / d
IsRatio(q, n, d) == q[1] = "rat" /\ q[2] * d = q[3] * n

\* C12: for a camera-frame point (x, y, z) with z # 0 pixel_coordinates
\* returns u = (x / z) * fx + width / 2 and v = (y / z) * fy + height / 2; for
\* a batch of N such points it returns N rows, row i being the result for
\* point i alone.
C12_PinholeFormula ==
    call.op \in {"pixel_coordinates", "pixel_coordinates_alinea"} =>
        LET pts == call.args[1]
            w == call.args[2]
            h == call.args[3]
            fx == call.args[4]
            fy == call.args[5]
            Right(p, u, v) ==
                /\ IsRatio(u, 2 * p[1] * fx + w * p[3], 2 * p[3])
                /\ IsRatio(v, 2 * p[2] * fy + h * p[3], 2 * p[3])
        IN IF pts[1] = "pt"
           THEN pts[2][3] # 0 =>
                  /\ call.out[1] = "uv"
                  /\ Right(pts[2], call.out[2], call.out[3])
           ELSE (\A r \in 1..Len(pts[2]) : pts[2][r][3] # 0) =>
                  /\ call.out[1] = "rows"
                  /\ Len(call.out[2]) = Len(pts[2])
                  /\ \A r \in 1..Len(pts[2]) :
                       Right(pts[2][r], call.out[2][r][1], call.out[2][r][2])

\* C13: target_frame places the frame origin at the base position turned
\* about the world Z axis by alpha; z is unchanged, alpha = 0 gives the base
\* position and so does a full turn.
C13_TargetOriginOrbits ==
    call.op = "target_frame" =>
        LET pos == call.args[1]
            alpha == call.args[3]
            origin == call.out.origin
        IN /\ origin[1] = pos[1] * Cos(alpha) - pos[2] * Sin(alpha)
           /\ origin[2] = pos[1] * Sin(alpha) + pos[2] * Cos(alpha)
           /\ origin[3] = pos[3]
           /\ alpha \in {0, TwoPi} => origin = pos

\* a target off the axis was placed at a quarter turn
C13_Witness ==
    /\ call.op = "target_frame"
    /\ call.args[3] = Quarter
    /\ call.args[1] = <<2, -5, 4>>
    /\ call.out.origin = <<5, 2, 4>>

C15_ClockwiseNegatesEverywhere ==
    pc = "evaluated" =>
        \A t \in terms :
            t.angle = IF clockwise THEN Radians(-(t.alpha * t.factor))
                      ELSE Radians(t.alpha * t.factor)

\* a clockwise rig was evaluated on an auxiliary camera's detection at 90
C15_Witness ==
    /\ pc = "evaluated"
    /\ clockwise
    /\ \E t \in terms : t.cam > 0 /\ t.alpha = 90 /\ t.angle = -Quarter

\* C16: after calibrate on the generalized variant the reference camera's
\* stored position is (0, y, 0) with y the fitted value.
C16_ReferencePositionOnAxis ==
    pc = "fitted" /\ variant = "General" =>
        /\ obj[F("cam", 0, "pos_x")] = Num(0)
        /\ obj[F("cam", 0, "pos_z")] = Num(0)
        /\ obj[F("cam", 0, "pos_y")] = Num(At(parameters[2], 2))

\* C17: calibrate returns the final summed error divided by the number of
\* observed corners supplied to the call, over all cameras, targets and
\* angles.
C17_ErrorPerCorner ==
    pc = "fitted" /\ variant = "General" =>
        /\ IsNum(result.err)
        /\ result.nb = Cardinality(Supplied(targets, others))

\* the fields calibrate fits: everything but the image size, the origin axis
\* and, on the top-camera variants, the angle factor given as an argument
Fitted(f) ==
    /\ Attr(f) \notin {"width_image", "height_image", "origin_axis"}
    /\ ~(variant \in TopLike /\ f = AngleFactor)

\* C19: calibrate called with no recorded detection is rejected before any
\* optimization attempt is run and sets no fitted parameter field.
C19_EmptyObservationsRejected ==
    Supplied(targets, others) = {} =>
        /\ tried = {}
        /\ pc \notin {"found", "fitted"}
        /\ \A f \in DOMAIN obj :
             Fitted(f) =>
               obj[f] = NewObject(variant, nb_targets, nb_others,
                                  IF camera_top THEN CompanionTop ELSE NoCompanion)[f]

\* C20: the parameter fields of an object change only in calibrate, and a
\* loaded object appears only in load: find_parameters, fit_function, dump
\* and the reading methods leave every parameter field as it was.
C20_FieldsChangeOnlyInCalibrateAndLoad ==
    [][ /\ obj' # obj => (\E n \in 0..MaxRep : Calibrate(n)) \/ CalibrateStore
        /\ loaded' # loaded => Load ]_vars

\* a reading method was called on a fitted object
C20_Witness ==
    /\ pc = "fitted"
    /\ call.op = "get_projection"
    /\ \E f \in DOMAIN obj : IsNum(obj[f])

\* the variants fitted on two targets
TwoTargets == {"Side2", "Side2YXZ", "SideTop2"}

\* C21: in every attempt of a two-target variant the list handed to the
\* minimizer has target 2's x and y equal to minus target 1's x and y of that
\* same list, and the twelve pose values of the two targets are twelve
\* entries of their own (7..12 and 13..18), which calibrate reads back into
\* the fields of target 1 and of target 2 separately.
C21_SecondTargetMirrorsFirst ==
    call.op = "minimize" /\ variant \in TwoTargets =>
        LET guess == call.out
            lay == FindLayout(variant, nb_targets, nb_others)
            store == StoreSeq(variant, nb_targets, nb_others)
        IN  /\ Len(guess) = 19
            /\ Len(lay) = 19
            /\ At(guess, 13) = Num(-At(guess, 7)[2])
            /\ At(guess, 14) = Num(-At(guess, 8)[2])
            /\ \A k \in 0..5 :
                 /\ At(lay, 7 + k) = F("target", 1, CamPose[k + 1])
                 /\ At(lay, 13 + k) = F("target", 2, CamPose[k + 1])
                 /\ \E n \in 1..Len(store) :
                      store[n][1] = 7 + k /\ store[n][2] = F("target", 1, CamPose[k + 1])
                 /\ \E n \in 1..Len(store) :
                      store[n][1] = 13 + k /\ store[n][2] = F("target", 2, CamPose[k + 1])

\* a two-target rig was fitted from a mirrored guess, and the fitted second
\* target is not the mirror image of the first
C21_Witness ==
    /\ variant = "Side2"
    /\ pc = "fitted"
    /\ call.op = "minimize"
    /\ At(call.out, 7)[2] # 0
    /\ At(call.out, 13)[2] = -At(call.out, 7)[2]
    /\ obj[F("target", 2, "pos_x")][2] # -obj[F("target", 1, "pos_x")][2]

\* C22: for every variant the vector find_parameters builds, the names
\* fit_function unpacks and the assignments of calibrate agree: the same
\* length, the same field at every index, and fit_function takes apart every
\* vector find_parameters hands it.
C22_OneVectorLayout ==
    pc \in {"find", "found", "fitted", "raised"} /\ exc \in {"", "find_parameters"} =>
        LET lay == FindLayout(variant, nb_targets, nb_others)
            L == Len(lay)
            store == StoreSeq(variant, nb_targets, nb_others)
            own == { n \in 1..Len(store) :
                       ~(store[n][2][1] = "other" /\ Attr(store[n][2]) = "angle_factor") }
        IN  /\ ~FitUnpackFails(variant, nb_targets, nb_others, L)
            /\ FitUnpack(variant) # << >> => FitUnpack(variant) = lay
            /\ \A n \in own : store[n][1] < L /\ At(lay, store[n][1]) = store[n][2]
            /\ { store[n][1] : n \in own } = 0..(L - 1)

\* C23: whatever the objective evaluates to, find_parameters hands calibrate
\* the vector of one of the attempts it made, never None.
C23_NeverAbsent ==
    pc = "found" =>
        /\ parameters[1] = "vec"
        /\ \E a \in tried :
             parameters[2] = Vec(a.s, Len(FindLayout(variant, nb_targets, nb_others)))

\* the least objective value among attempts, float('inf') when none of them
\* evaluated to a number: a function of the set of attempts, not of their order
LeastErr(attempts) ==
    IF \E a \in attempts : IsNum(a.err)
    THEN CHOOSE e \in { a.err : a \in attempts } :
            IsNum(e) /\ \A b \in attempts : IsNum(b.err) => e[2] <= b.err[2]
    ELSE Inf

\* C24: an attempt of find_parameters leaves the observations, the rig and
\* every parameter field of the object as they were; what it passes on to the
\* next attempt is min_err and best_parameters only, and min_err is the least
\* objective value of the attempts made so far whatever their order.
C24_AttemptsIndependent ==
    [][ (pc = "find" /\ pc' = "find") =>
          /\ obj' = obj
          /\ rig' = rig
          /\ UNCHANGED << parameters, terms, disk, result, number_of_repetition >>
          /\ min_err' = LeastErr(tried')
          /\ best_parameters' # best_parameters => min_err' # min_err ]_vars

\* two attempts were made, one evaluating to a number and one to
\* not-a-number, and the number is the error kept
C24_Witness ==
    /\ pc = "find"
    /\ it = 2
    /\ \E a, b \in tried : a.err = NaN /\ IsNum(b.err) /\ min_err = b.err

\* C25: the error calibrate returns is the objective at the parameters it
\* stored: every field calibrate assigned holds the value of its entry in the
\* vector the final evaluation of the objective was given (a rotation up to
\* whole turns, which the objective cannot tell apart).
C25_ErrorOfStoredParameters ==
    pc = "fitted" =>
        LET store == StoreSeq(variant, nb_targets, nb_others)
        IN  \A n \in 1..Len(store) :
                IF IsRot(store[n][2])
                THEN (obj[store[n][2]][2] - At(result.at, store[n][1])) % TwoPi = 0
                ELSE obj[store[n][2]] = Num(At(result.at, store[n][1]))

\* the fields get_camera_frame and get_projection read
ProjectionFields ==
    { F("cam", 0, a) : a \in CamAttrs } \cup { AngleFactor }

\* C26: on an object calibrate has returned from, every field dump reads and
\* every field get_projection reads is there and is not None, and dump does
\* not end in an exception.
C26_FittedObjectComplete ==
    /\ ~(pc = "raised" /\ exc = "dump")
    /\ pc = "fitted" =>
         /\ HasDump(variant) =>
              \A n \in 1..Len(KeysOf(variant)) :
                  /\ KeysOf(variant)[n][2] \in DOMAIN obj
                  /\ obj[KeysOf(variant)[n][2]] # None
         /\ "get_projection" \in Getters(variant) =>
              \A f \in ProjectionFields : f \in DOMAIN obj /\ obj[f] # None

\* C27: for both values of the clockwise flag, the angle by which the
\* objective of the generalized variant turned the targets for observations
\* labelled alpha is, up to whole turns, the angle by which the function from
\* get_projection(alpha) turns a point.
C27_OneSignConvention ==
    pc = "evaluated" =>
        \A t \in terms :
            (t.angle - ProjectionAngle(t.alpha, t.factor)) % TwoPi = 0

\* C28: Calibration.calibrate returns a fit only when it was handed exactly
\* nb_targets targets and nb_cameras - 1 auxiliary cameras, each with its
\* detections of exactly nb_targets targets.
C28_FitsExactTopology ==
    variant = "General" /\ pc = "fitted" =>
        /\ Len(targets) = nb_targets
        /\ Len(others) = nb_others
        /\ \A c \in 1..Len(others) : Len(others[c]) = nb_targets

\* the list handed to the minimizer is the same whatever the generator
\* yields, and each of its entries is the companion's stored value of the
\* field the entry stands for
SeededFromCompanion ==
    LET lay == FindLayout(variant, nb_targets, nb_others)
    IN  /\ \A seed \in Seeds :
             InitialGuess(variant, nb_targets, nb_others, obj, seed) = call.out
        /\ Len(call.out) = Len(lay)
        /\ \A k \in 1..Len(lay) : call.out[k] = CompanionTop[F("cam", 0, Attr(lay[k]))]

\* every field of the companion camera is as it was handed to the constructor
CompanionUntouched ==
    HasCameraTop(obj) =>
        \A a \in CamAttrs \cup {"angle_factor"} :
            FromCameraTop(obj, a) = CompanionTop[F("cam", 0, a)]

\* C29 as stated: on every top-camera variant constructed with a calibrated
\* companion camera, every attempt starts from the companion's stored
\* parameters and draws nothing from the generator, and the companion's
\* fields are never changed.
C29_CompanionSeedsEveryAttempt ==
    /\ camera_top /\ call.op = "minimize" => SeededFromCompanion
    /\ CompanionUntouched

\* C29: on CalibrationCameraTopBis and CalibrationCameraTopPosition
\* constructed with a calibrated companion camera, every attempt starts from
\* the companion's stored values of the entries of its vector and draws
\* nothing from the generator; no find_parameters and no calibrate changes a
\* field of a companion camera.
C29_TopBisAndTopPositionSeeded ==
    /\ (camera_top /\ variant \in {"TopBis", "TopPosition"} /\ call.op = "minimize") =>
         SeededFromCompanion
    /\ CompanionUntouched

\* a top camera seeded from its companion made its two attempts and was
\* fitted away from the companion's position
C29_Witness ==
    /\ variant = "TopPosition"
    /\ camera_top
    /\ pc = "fitted"
    /\ call.op = "minimize"
    /\ call.out[1] = FromCameraTop(obj, "pos_x")
    /\ obj[F("cam", 0, "pos_x")] # FromCameraTop(obj, "pos_x")

\* C30: the objective of find_position_3d_points is the sum of one
\* reprojection distance for every (camera, angle) observation whose camera
\* id has a calibration: an observation of a camera id absent from
\* calibrations adds nothing, every other observation is added exactly once,
\* and the unknown point is turned about Z by
\* radians(angle * angle_factor of that camera) before it is projected.
C30_SumsCalibratedObservations ==
    pc = "summed" /\ call.op = "find_position_3d_points" =>
        LET pt2d == call.args[1]
            calibrations == call.args[2]
            x0 == call.args[3]
            Keys == { p \in (DOMAIN pt2d \cap DOMAIN calibrations)
                             \X { ObservedAngles[k] : k \in 1..Len(ObservedAngles) } :
                        p[2] \in DOMAIN pt2d[p[1]] }
            Distance(p) ==
                LET cam == calibrations[p[1]]
                    uv == TurnedThenProjected(cam, Radians(p[2] * cam.angle_factor), x0)
                IN Norm(<<"uv", uv[1], uv[2]>>, pt2d[p[1]][p[2]])
            expected == [d \in { Distance(p) : p \in Keys } |->
                           Cardinality({ p \in Keys : Distance(p) = d })]
        IN /\ terms = expected
           /\ call.out = FloatSum(expected)

\* a point seen at two angles by a calibrated camera of angle factor 2 and
\* by a camera without calibration: the sum has the two distances only
C30_Witness ==
    /\ pc = "summed"
    /\ call.op = "find_position_3d_points"
    /\ DOMAIN call.args[1] = {"side", "zoom"}
    /\ DOMAIN call.args[1]["side"] = {0, 90}
    /\ DOMAIN call.args[1]["zoom"] = {90, 270}
    /\ DOMAIN call.args[2] = {"side", "top"}
    /\ call.args[2]["side"].angle_factor = 2
    /\ call.args[3] = <<1, 2, 1>>
    /\ call.out[1] = "sum"
    /\ Cardinality(DOMAIN call.out[2]) = 2
====
